---- MODULE Spec2Model ----
(***************************************************************************)
(* A model of glytrait's trait-formula engine: the formula parser and the  *)
(* two-phase TraitFormula (initialize / calcu_trait) of                    *)
(* src/src/glytrait/formula.py, the older TraitFormula of                  *)
(* src/glytrait/trait.py, and the formula-file loaders.                    *)
(*                                                                         *)
(* Text is modelled as a sequence of one-character strings, so that        *)
(* splitting, stripping, counting and matching are computed the way the    *)
(* Python code computes them.                                              *)
(***************************************************************************)
EXTENDS Integers, Sequences, FiniteSets, TLC

\* ------------------------------------------------------------------------
\* Bounds of the model
\* ------------------------------------------------------------------------

\* The number of records of a user formula file.
MaxUserRecords == 3

\* The number of lines of a formula file read line by line.
MaxFileLines == 4

\* ------------------------------------------------------------------------
\* Auxiliary operators
\* ------------------------------------------------------------------------

\* The element of a singleton set.
The(S) == CHOOSE x \in S : TRUE

\* Op applied to the value of v: the value is computed once and named, as an
\* assignment to a local variable names it.
Bind(v, Op(_)) == The({Op(x) : x \in {v}})

Min(S) == CHOOSE x \in S : \A y \in S : x <= y

Max(S) == CHOOSE x \in S : \A y \in S : y <= x

\* The set of the elements of a sequence.
Range(s) == {s[i] : i \in 1..Len(s)}

\* ------------------------------------------------------------------------
\* Python str operations on sequences of characters
\* ------------------------------------------------------------------------

Digits == {"0", "1", "2", "3", "4", "5", "6", "7", "8", "9"}

Lowers == {"a", "b", "c", "d", "e", "f", "g", "h", "i", "j", "k", "l", "m",
           "n", "o", "p", "q", "r", "s", "t", "u", "v", "w", "x", "y", "z"}

Uppers == {"A", "B", "C", "D", "E", "F", "G", "H", "I", "J", "K", "L", "M",
           "N", "O", "P", "Q", "R", "S", "T", "U", "V", "W", "X", "Y", "Z"}

\* The regular expression class \w.
WordChars == Lowers \cup Uppers \cup Digits \cup {"_"}

\* The regular expression class [a-zA-Z-_] of a quoted value.
QuotedChars == Lowers \cup Uppers \cup {"-", "_"}

\* Whitespace, as str.strip() and \s see it.
Spaces == {" "}

\* s[i..] and s[..j], as Python slices.
From(s, i) == SubSeq(s, i, Len(s))

Upto(s, j) == SubSeq(s, 1, j)

\* Whether pat occurs in s starting at position i.
MatchAt(s, pat, i) ==
    /\ i >= 1
    /\ i + Len(pat) - 1 <= Len(s)
    /\ SubSeq(s, i, i + Len(pat) - 1) = pat

\* pat in s
Contains(s, pat) == \E i \in 1..Len(s) : MatchAt(s, pat, i)

\* s.startswith(pat), s.endswith(pat)
StartsWith(s, pat) == MatchAt(s, pat, 1)

EndsWith(s, pat) == MatchAt(s, pat, Len(s) - Len(pat) + 1)

\* s.find(pat, i - 1) + 1: the first position at or after i where pat occurs
\* in s, or 0.
FindFrom(s, pat, i) ==
    Bind({k \in i..Len(s) : MatchAt(s, pat, k)},
         LAMBDA at : IF at = {} THEN 0 ELSE Min(at))

\* s.count(pat): the number of non-overlapping occurrences, left to right.
RECURSIVE CountFrom(_, _, _)
CountFrom(s, pat, i) ==
    Bind(FindFrom(s, pat, i),
         LAMBDA k : IF k = 0 THEN 0 ELSE 1 + CountFrom(s, pat, k + Len(pat)))

Count(s, pat) == CountFrom(s, pat, 1)

\* s.split(pat): the parts between the non-overlapping occurrences of pat.
RECURSIVE SplitFrom(_, _, _)
SplitFrom(s, pat, i) ==
    Bind(FindFrom(s, pat, i),
         LAMBDA k :
             IF k = 0 THEN <<From(s, i)>>
             ELSE <<SubSeq(s, i, k - 1)>> \o SplitFrom(s, pat, k + Len(pat)))

Split(s, pat) == SplitFrom(s, pat, 1)

\* The length of the longest prefix of s made of characters of chars.
SpanLen(s, chars) ==
    Min({i \in 0..Len(s) : i = Len(s) \/ s[i + 1] \notin chars})

\* The last position of s that holds no character of chars, or 0.
LastOutside(s, chars) ==
    Max({i \in 0..Len(s) : i = 0 \/ s[i] \notin chars})

\* s.lstrip(chars), s.rstrip(chars), s.strip(chars)
LStripChars(s, chars) == From(s, SpanLen(s, chars) + 1)

RStripChars(s, chars) == Upto(s, LastOutside(s, chars))

StripChars(s, chars) ==
    SubSeq(s, SpanLen(s, chars) + 1, LastOutside(s, chars))

\* s.strip()
Strip(s) == StripChars(s, Spaces)

\* s.isdigit()
IsDigit(s) == s # <<>> /\ \A i \in 1..Len(s) : s[i] \in Digits

DigitValue(c) ==
    CASE c = "0" -> 0 [] c = "1" -> 1 [] c = "2" -> 2 [] c = "3" -> 3
      [] c = "4" -> 4 [] c = "5" -> 5 [] c = "6" -> 6 [] c = "7" -> 7
      [] c = "8" -> 8 [] c = "9" -> 9

\* int(s[..n]) of a string of digits
RECURSIVE ToIntUpto(_, _)
ToIntUpto(s, n) ==
    IF n = 0 THEN 0 ELSE 10 * ToIntUpto(s, n - 1) + DigitValue(s[n])

\* int(s)
ToInt(s) == ToIntUpto(s, Len(s))

\* The text of a string literal: the sequence of its characters.
RECURSIVE TextUpto(_, _)
TextUpto(str, n) ==
    IF n = 0 THEN <<>> ELSE Append(TextUpto(str, n - 1), SubSeq(str, n, n))

Text(str) == TextUpto(str, Len(str))

\* ------------------------------------------------------------------------
\* Formula terms (src/src/glytrait/formula.py)
\* ------------------------------------------------------------------------

\* The outcome of an operation that returns a value or raises.
Ok(v) == [ok |-> TRUE, value |-> v]

Raise(e) == [ok |-> FALSE, error |-> e]

\* The literal of a comparison term: an int, a bool or a str.
IntValue(n) == [t |-> "int", i |-> n]

BoolValue(b) == [t |-> "bool", b |-> b]

StrValue(s) == [t |-> "str", s |-> s]

ConstantTerm(value) == [kind |-> "ConstantTerm", value |-> value]

NumericalTerm(meta_property) ==
    [kind |-> "NumericalTerm", meta_property |-> meta_property]

CompareTerm(meta_property, operator, value) ==
    [kind |-> "CompareTerm", meta_property |-> meta_property,
     operator |-> operator, value |-> value]

OrderingOperators == {<<">">>, <<">", "=">>, <<"<">>, <<"<", "=">>}

EqualityOperators == {<<"=", "=">>, <<"!", "=">>}

\* The operators a CompareTerm accepts.
Operators == EqualityOperators \cup OrderingOperators

Parens == {"(", ")"}

\* any(op in expr for op in operators)
HasOperator(expr) == \E op \in Operators : Contains(expr, op)

\* The alternation (==|!=|>|>=|<|<=) at the head of s, as the backtracking
\* matcher settles it when a value must follow: no value starts with "=", so
\* a two-character operator is taken whenever one is there.
OperatorAtHead(s) ==
    IF Len(s) >= 2 /\ SubSeq(s, 1, 2) \in Operators THEN SubSeq(s, 1, 2)
    ELSE IF Len(s) >= 1 /\ SubSeq(s, 1, 1) \in Operators THEN SubSeq(s, 1, 1)
    ELSE <<>>

\* Whether s matches '[a-zA-Z-_]*' within the quote character q.
IsQuoted(s, q) ==
    /\ Len(s) >= 2
    /\ s[1] = q
    /\ s[Len(s)] = q
    /\ \A i \in 2..(Len(s) - 1) : s[i] \in QuotedChars

\* Whether s matches (\d+|True|False|'[a-zA-Z-_]*'|"[a-zA-Z-_]*") in full.
IsValueText(s) ==
    \/ IsDigit(s)
    \/ s = Text("True")
    \/ s = Text("False")
    \/ IsQuoted(s, "'")
    \/ IsQuoted(s, "\"")

\* The conversion of the matched value text.
ConvertValue(s) ==
    IF IsDigit(s) THEN IntValue(ToInt(s))
    ELSE IF s = Text("True") THEN BoolValue(TRUE)
    ELSE IF s = Text("False") THEN BoolValue(FALSE)
    ELSE StrValue(StripChars(StripChars(s, {"'"}), {"\""}))

\* re.fullmatch(r"(\w+)\s*(==|!=|>|>=|<|<=)\s*(value)", expr): the groups, or
\* no match.
MatchCompare(expr) ==
    Bind(SpanLen(expr, WordChars), LAMBDA n :
    Bind(LStripChars(From(expr, n + 1), Spaces), LAMBDA r1 :
    Bind(OperatorAtHead(r1), LAMBDA op :
    Bind(LStripChars(From(r1, Len(op) + 1), Spaces), LAMBDA r2 :
        IF n >= 1 /\ op # <<>> /\ IsValueText(r2)
        THEN [matched |-> TRUE, meta_property |-> Upto(expr, n),
              operator |-> op, value |-> r2]
        ELSE [matched |-> FALSE]))))

\* _parse_term
ParseTerm(expr) ==
    IF IsDigit(expr)
    THEN Ok(ConstantTerm(ToInt(StripChars(expr, Parens))))
    ELSE IF ~HasOperator(expr)
    THEN Ok(NumericalTerm(StripChars(expr, Parens)))
    ELSE IF ~StartsWith(expr, <<"(">>) \/ ~EndsWith(expr, <<")">>)
    THEN Raise("FormulaParseError")
    ELSE Bind(StripChars(expr, Parens), LAMBDA stripped :
         Bind(MatchCompare(stripped), LAMBDA match :
             IF ~match.matched THEN Raise("FormulaParseError")
             ELSE Ok(CompareTerm(match.meta_property, match.operator,
                                 ConvertValue(match.value)))))

\* [_parse_term(t) for t in term_exprs[:n]]: the terms in order, or the
\* error of the first term that does not parse.
RECURSIVE ParseTermList(_, _)
ParseTermList(term_exprs, n) ==
    IF n = 0 THEN Ok(<<>>)
    ELSE Bind(ParseTermList(term_exprs, n - 1), LAMBDA terms :
         IF ~terms.ok THEN terms
         ELSE Bind(Strip(term_exprs[n]), LAMBDA t :
              Bind(ParseTerm(t), LAMBDA term :
                  IF ~term.ok THEN term
                  ELSE Ok(Append(terms.value, term.value)))))

\* _parse_terms
ParseTerms(expr) ==
    Bind(Split(expr, <<"*">>), LAMBDA term_exprs :
        ParseTermList(term_exprs, Len(term_exprs)))

\* _split_formula_expression
SplitFormulaExpression(expr0) ==
    Bind(Strip(expr0), LAMBDA expr :
    IF ~Contains(expr, <<" ", "=", " ">>) THEN Raise("FormulaParseError")
    ELSE Bind(Split(expr, <<" ", "=", " ">>), LAMBDA parts :
    IF Len(parts) # 2 THEN Raise("FormulaParseError")
    ELSE Bind(parts[2], LAMBDA expr_after_name :
    IF ~Contains(expr_after_name, <<"/", "/">>)
          /\ ~Contains(expr_after_name, <<"/">>)
    THEN Raise("FormulaParseError")
    ELSE Bind(IF Count(expr_after_name, <<"/", "/">>) = 1 THEN <<"/", "/">>
              ELSE IF Count(expr_after_name, <<"/">>) = 1 THEN <<"/">>
              ELSE <<>>, LAMBDA spliter :
    IF spliter = <<>> THEN Raise("FormulaParseError")
    ELSE Bind(Split(expr_after_name, spliter), LAMBDA halves :
        Ok([name |-> Strip(parts[1]),
            numerator |-> Strip(halves[1]),
            spliter |-> spliter,
            denominator |-> Strip(halves[2])]))))))

\* _parse_formula_expression as it would be if the shortcut put the
\* denominator's terms ahead of the numerator's own.
ParseFormulaExpression_Prepending(expr) ==
    Bind(SplitFormulaExpression(expr), LAMBDA split :
    IF ~split.ok THEN split
    ELSE Bind(ParseTerms(split.value.numerator), LAMBDA numerators :
    IF ~numerators.ok THEN numerators
    ELSE Bind(ParseTerms(split.value.denominator), LAMBDA denominators :
    IF ~denominators.ok THEN denominators
    ELSE Ok([name |-> split.value.name,
             numerators |->
                 IF split.value.spliter = <<"/", "/">>
                 THEN denominators.value \o numerators.value
                 ELSE numerators.value,
             denominators |-> denominators.value]))))

\* _parse_formula_expression
ParseFormulaExpression(expr) ==
    Bind(SplitFormulaExpression(expr), LAMBDA split :
    IF ~split.ok THEN split
    ELSE Bind(ParseTerms(split.value.numerator), LAMBDA numerators :
    IF ~numerators.ok THEN numerators
    ELSE Bind(ParseTerms(split.value.denominator), LAMBDA denominators :
    IF ~denominators.ok THEN denominators
    ELSE Ok([name |-> split.value.name,
             numerators |->
                 IF split.value.spliter = <<"/", "/">>
                 THEN numerators.value \o denominators.value
                 ELSE numerators.value,
             denominators |-> denominators.value]))))

\* ------------------------------------------------------------------------
\* Tables
\* ------------------------------------------------------------------------

\* The glycan identifiers and the samples of the modelled datasets.
Glycans == {"G1", "G2"}

Samples == {"S1", "S2"}

\* The abundances a sample may hold for each glycan.
Abundances == [G1 |-> {0, 10}, G2 |-> {0, 5}]

\* The fucose counts of the complex glycans.
FucCounts == {0, 2}

\* An index (of rows or of columns): glycan identifiers, each once, in order.
Indexes ==
    {<<g>> : g \in Glycans}
        \cup {<<g, h>> : <<g, h>> \in {p \in Glycans \X Glycans : p[1] # p[2]}}

\* The dtype of each column of a meta-property table.
ColumnDtypes ==
    (Text("isComplex") :> "boolean") @@ (Text("isHighMannose") :> "boolean")
        @@ (Text("totalFuc") :> "UInt8") @@ (Text("type") :> "category")

\* The meta-properties of one glycan, by column.
GlycanRow(isComplex, isHighMannose, totalFuc, type) ==
    (Text("isComplex") :> isComplex) @@ (Text("isHighMannose") :> isHighMannose)
        @@ (Text("totalFuc") :> totalFuc) @@ (Text("type") :> Text(type))

\* A complex glycan with some fucoses, or a high-mannose glycan.
GlycanRows ==
    {GlycanRow(TRUE, FALSE, n, "complex") : n \in FucCounts}
        \cup {GlycanRow(FALSE, TRUE, 0, "highmannose")}

\* A meta-property table: glycans as index, one column per meta-property.
MetaPropertyTable(index, rows) ==
    [index |-> index,
     columns |-> [c \in DOMAIN ColumnDtypes |->
                     [dtype |-> ColumnDtypes[c],
                      values |-> [g \in Range(index) |-> rows[g][c]]]]]

\* A table without one of the columns, as a table of a run that does not
\* derive that meta-property.
WithoutColumn(table, column) ==
    [table EXCEPT !.columns =
        [c \in (DOMAIN table.columns) \ {column} |-> table.columns[c]]]

MetaPropertyTables ==
    {MetaPropertyTable(index, rows) :
        index \in Indexes, rows \in [Glycans -> GlycanRows]}
    \cup {WithoutColumn(MetaPropertyTable(<<"G1", "G2">>, rows),
                        Text("isComplex")) :
              rows \in [Glycans -> GlycanRows]}

\* An abundance table: samples as index, glycans as columns.
AbundanceTable(columns, values) ==
    [index |-> Samples,
     columns |-> columns,
     values |-> [s \in Samples |-> [g \in Range(columns) |-> values[s][g]]]]

AbundanceTables ==
    {AbundanceTable(columns, values) :
        columns \in {<<"G1">>, <<"G1", "G2">>},
        values \in [Samples -> [G1 : Abundances.G1, G2 : Abundances.G2]]}

\* ------------------------------------------------------------------------
\* Evaluating terms against a meta-property table
\* (src/src/glytrait/formula.py)
\* ------------------------------------------------------------------------

\* A Series over the glycans of a table.
Series(index, values) == [index |-> index, values |-> values]

\* ConstantTerm.__call__
ConstantTermCall(term, meta_property_table) ==
    Ok(Series(meta_property_table.index,
              [g \in Range(meta_property_table.index) |-> term.value]))

\* NumericalTerm.__call__
NumericalTermCall(term, meta_property_table) ==
    IF term.meta_property \notin DOMAIN meta_property_table.columns
    THEN Raise("FormulaError")
    ELSE LET mp_s == meta_property_table.columns[term.meta_property]
         IN  IF mp_s.dtype = "boolean" \/ mp_s.dtype = "category"
             THEN Raise("FormulaError")
             ELSE Ok(Series(meta_property_table.index, mp_s.values))

\* The comparison of numbers with > read as >=.
CompareNumbers_NotStrict(operator, a, b) ==
    CASE operator = <<"=", "=">> -> a = b
      [] operator = <<"!", "=">> -> a # b
      [] operator = <<">">>      -> a >= b
      [] operator = <<">", "=">> -> a >= b
      [] operator = <<"<">>      -> a < b
      [] operator = <<"<", "=">> -> a <= b

\* A boolean or an integer as a number, as Python compares them.
AsNumber(dtype, v) ==
    IF dtype \in {"boolean", "bool"} THEN (IF v THEN 1 ELSE 0) ELSE v

LiteralAsNumber(value) ==
    IF value.t = "bool" THEN (IF value.b THEN 1 ELSE 0) ELSE value.i

\* a <operator> b on numbers
CompareNumbers(operator, a, b) ==
    CASE operator = <<"=", "=">> -> a = b
      [] operator = <<"!", "=">> -> a # b
      [] operator = <<">">>      -> a > b
      [] operator = <<">", "=">> -> a >= b
      [] operator = <<"<">>      -> a < b
      [] operator = <<"<", "=">> -> a <= b

\* eval("mp_s <operator> <value>") for one element of the column: a bool, or
\* the TypeError of an ordering comparison of a number with a str.  A literal
\* of another kind than the column's compares unequal to every element.
EvalCompare(dtype, v, operator, value) ==
    IF dtype = "category"
    THEN IF value.t = "str"
         THEN Ok(IF operator = <<"=", "=">> THEN v = value.s ELSE v # value.s)
         ELSE Ok(operator = <<"!", "=">>)
    ELSE IF value.t = "str"
         THEN IF operator \in EqualityOperators
              THEN Ok(operator = <<"!", "=">>)
              ELSE Raise("TypeError")
         ELSE Ok(CompareNumbers(operator, AsNumber(dtype, v),
                                LiteralAsNumber(value)))

\* CompareTerm.__call__ without the test of the operator against the dtype:
\* the comparison is evaluated on whatever the column holds.
CompareTermCall_Coercing(term, meta_property_table) ==
    IF term.meta_property \notin DOMAIN meta_property_table.columns
    THEN Raise("FormulaError")
    ELSE LET mp_s == meta_property_table.columns[term.meta_property]
             index == meta_property_table.index
             result_s == [g \in Range(index) |->
                             EvalCompare(mp_s.dtype, mp_s.values[g],
                                         term.operator, term.value)]
         IN  IF \E g \in Range(index) : ~result_s[g].ok
             THEN Raise("TypeError")
             ELSE Ok(Series(index,
                            [g \in Range(index) |->
                                IF result_s[g].value THEN 1 ELSE 0]))

\* CompareTerm.__call__
CompareTermCall(term, meta_property_table) ==
    IF term.meta_property \notin DOMAIN meta_property_table.columns
    THEN Raise("FormulaError")
    ELSE LET mp_s == meta_property_table.columns[term.meta_property]
             condition_1 == mp_s.dtype = "boolean" \/ mp_s.dtype = "category"
             condition_2 == term.operator \in OrderingOperators
             index == meta_property_table.index
             result_s == [g \in Range(index) |->
                             EvalCompare(mp_s.dtype, mp_s.values[g],
                                         term.operator, term.value)]
         IN  IF condition_1 /\ condition_2 THEN Raise("FormulaError")
             ELSE IF \E g \in Range(index) : ~result_s[g].ok
             THEN Raise("TypeError")
             ELSE Ok(Series(index,
                            [g \in Range(index) |->
                                IF result_s[g].value THEN 1 ELSE 0]))

\* term(meta_property_table), for the three kinds of FormulaTerm
TermCall(term, meta_property_table) ==
    CASE term.kind = "ConstantTerm" ->
             ConstantTermCall(term, meta_property_table)
      [] term.kind = "NumericalTerm" ->
             NumericalTermCall(term, meta_property_table)
      [] term.kind = "CompareTerm" ->
             CompareTermCall(term, meta_property_table)

\* The elementwise sum of two Series, in place of their product.
Times_Sum(a, b) ==
    Series(a.index, [g \in Range(a.index) |-> a.values[g] + b.values[g]])

\* The elementwise product of two Series over the same index.
Times(a, b) ==
    Series(a.index, [g \in Range(a.index) |-> a.values[g] * b.values[g]])

\* [term(meta_property_table) for term in terms[i:]], multiplied into the
\* product of the columns before them: the terms are evaluated in order and
\* the first one that raises ends the evaluation.
RECURSIVE ProdFrom(_, _, _, _)
ProdFrom(meta_property_table, terms, i, product) ==
    IF i > Len(terms) THEN Ok(product)
    ELSE Bind(TermCall(terms[i], meta_property_table), LAMBDA series :
         IF ~series.ok THEN series
         ELSE Bind(Times(product, series.value), LAMBDA next :
              ProdFrom(meta_property_table, terms, i + 1, next)))

\* TraitFormula._initialize: pd.concat(series_list, axis=1).prod(axis=1)
InitializeArray(meta_property_table, terms) ==
    ProdFrom(meta_property_table, terms, 1,
             Series(meta_property_table.index,
                    [g \in Range(meta_property_table.index) |-> 1]))

\* ------------------------------------------------------------------------
\* The formula parser of src/glytrait/trait.py
\* ------------------------------------------------------------------------

\* basic_meta_properties
BasicMetaProperties ==
    {Text("."), Text("isComplex"), Text("isHighMannose"), Text("isHybrid"),
     Text("isBisecting"), Text("is1Antennary"), Text("is2Antennary"),
     Text("is3Antennary"), Text("is4Antennary"), Text("totalAntenna"),
     Text("coreFuc"), Text("antennaryFuc"), Text("hasAntennaryFuc"),
     Text("totalFuc"), Text("hasFuc"), Text("noFuc"), Text("totalSia"),
     Text("hasSia"), Text("noSia"), Text("totalMan"), Text("totalGal")}

\* sia_linkage_meta_properties
SiaLinkageMetaProperties ==
    {Text("a23Sia"), Text("a26Sia"), Text("hasa23Sia"), Text("hasa26Sia"),
     Text("noa23Sia"), Text("noa26Sia")}

\* meta_properties: the names a formula of trait.py may use.
MetaProperties == BasicMetaProperties \cup SiaLinkageMetaProperties

\* The last position of the character c in s, or 0.
LastIndexOf(s, c) == Max({i \in 0..Len(s) : i = 0 \/ s[i] = c})

\* re.match(r"(\w+) = \((.+)\) <slash> \((.+)\)", expr): both (.+) are greedy,
\* so the first group runs to the last ") <slash> (" that leaves a non-empty
\* second group, and the second group runs to the last ")".
MatchExpression(expr, slash) ==
    Bind(SpanLen(expr, WordChars), LAMBDA n :
    IF n = 0 \/ ~MatchAt(expr, Text(" = ("), n + 1)
    THEN [matched |-> FALSE]
    ELSE Bind(From(expr, n + 5), LAMBDA rest :
         Bind(<<")", " ">> \o slash \o <<" ", "(">>, LAMBDA sep :
         Bind({k \in 2..Len(rest) :
                  /\ MatchAt(rest, sep, k)
                  /\ LastIndexOf(From(rest, k + Len(sep)), ")") >= 2},
              LAMBDA seps :
         IF seps = {} THEN [matched |-> FALSE]
         ELSE Bind(From(rest, Max(seps) + Len(sep)), LAMBDA tail :
              [matched |-> TRUE,
               name |-> Upto(expr, n),
               num_prop |-> Upto(rest, Max(seps) - 1),
               den_prop |-> Upto(tail, LastIndexOf(tail, ")") - 1)])))))

\* [p.strip() for p in parts[:n]]
RECURSIVE StripEach(_, _)
StripEach(parts, n) ==
    IF n = 0 THEN <<>> ELSE Append(StripEach(parts, n - 1), Strip(parts[n]))

\* [p.strip() for p in props.split("*")]
SplitProperties(props) ==
    Bind(Split(props, <<"*">>), LAMBDA parts : StripEach(parts, Len(parts)))

\* re.search(r"\W", prop) and prop != "."
HasInvalidCharacter(prop) ==
    /\ \E i \in 1..Len(prop) : prop[i] \notin WordChars
    /\ prop # <<".">>

\* The text that (\d+/\d+|\d+(\.\d+)?) matches at the head of s, or the
\* empty text.
NumberAtHead(s) ==
    Bind(SpanLen(s, Digits), LAMBDA n1 :
    Bind(IF n1 + 1 <= Len(s) THEN s[n1 + 1] ELSE "", LAMBDA mark :
    Bind(SpanLen(From(s, n1 + 2), Digits), LAMBDA n2 :
        IF n1 = 0 THEN <<>>
        ELSE IF mark \in {"/", "."} /\ n2 >= 1 THEN Upto(s, n1 + 1 + n2)
        ELSE Upto(s, n1))))

\* re.search(r"\) \* (\d+/\d+|\d+(\.\d+)?)", expr): the text of group 1 of the
\* leftmost match at or after position i, or the empty text.
RECURSIVE CoefficientText(_, _)
CoefficientText(expr, i) ==
    IF i + 4 > Len(expr) THEN <<>>
    ELSE Bind(IF MatchAt(expr, Text(") * "), i)
              THEN NumberAtHead(From(expr, i + 4)) ELSE <<>>, LAMBDA number :
         IF number # <<>> THEN number ELSE CoefficientText(expr, i + 1))

\* 10 to the power n
RECURSIVE Power10(_)
Power10(n) == IF n = 0 THEN 1 ELSE 10 * Power10(n - 1)

\* eval(text) for a coefficient text: the number as a fraction <<p, q>>, or
\* the ZeroDivisionError of a division by zero.
EvalCoefficient(text) ==
    Bind(SpanLen(text, Digits), LAMBDA n1 :
    Bind(ToInt(Upto(text, n1)), LAMBDA a :
    Bind(From(text, n1 + 2), LAMBDA b :
        IF n1 = Len(text) THEN Ok(<<a, 1>>)
        ELSE IF text[n1 + 1] = "/"
        THEN IF ToInt(b) = 0 THEN Raise("ZeroDivisionError")
             ELSE Ok(<<a, ToInt(b)>>)
        ELSE Ok(<<a * Power10(Len(b)) + ToInt(b), Power10(Len(b))>>))))

\* _parse_expression
ParseExpression(expr) ==
    Bind(Contains(expr, <<"/", "/">>), LAMBDA shortcut :
    Bind(MatchExpression(expr, IF shortcut THEN <<"/", "/">> ELSE <<"/">>),
         LAMBDA match :
    IF ~match.matched THEN Raise("FormulaParseError")
    ELSE Bind(SplitProperties(match.num_prop), LAMBDA num_prop :
         Bind(SplitProperties(match.den_prop), LAMBDA den_prop :
         IF \E p \in Range(num_prop \o den_prop) : HasInvalidCharacter(p)
         THEN Raise("FormulaParseError")
         ELSE Bind(IF Contains(expr, Text(") *"))
                   THEN Bind(CoefficientText(expr, 1), LAMBDA text :
                            IF text = <<>> THEN Raise("FormulaParseError")
                            ELSE EvalCoefficient(text))
                   ELSE Ok(<<1, 1>>), LAMBDA coef :
              IF ~coef.ok THEN coef
              ELSE Ok([name |-> match.name,
                       num_prop |->
                           IF shortcut THEN num_prop \o den_prop
                           ELSE num_prop,
                       den_prop |-> den_prop,
                       coef |-> coef.value]))))))

\* The validators of the fields of the TraitFormula of trait.py:
\* _check_length, _check_meta_properties, _check_numerator,
\* _check_denominator and the coefficient's gt(0).
FieldsAreValid(numerator_properties, denominator_properties, coefficient) ==
    /\ Len(numerator_properties) # 0
    /\ Range(numerator_properties) \subseteq MetaProperties
    /\ <<".">> \notin Range(numerator_properties)
    /\ Len(denominator_properties) # 0
    /\ Range(denominator_properties) \subseteq MetaProperties
    /\ ~(<<".">> \in Range(denominator_properties)
            /\ Len(denominator_properties) > 1)
    /\ coefficient[1] > 0

\* ------------------------------------------------------------------------
\* TraitFormula (src/src/glytrait/formula.py)
\* ------------------------------------------------------------------------

\* Python's None
None == [none |-> TRUE]

\* The float NaN, and the float n / d of two non-negative integers (d > 0),
\* kept as a fraction in lowest terms so that equal floats are equal values.
NaN == [nan |-> TRUE]

RECURSIVE GCD(_, _)
GCD(a, b) == IF b = 0 THEN a ELSE GCD(b, a % b)

Ratio(n, d) ==
    Bind(GCD(n, d), LAMBDA k : [nan |-> FALSE, n |-> n \div k, d |-> d \div k])

\* str(n) of a natural number
RECURSIVE IntText(_)
IntText(n) ==
    IF n < 10 THEN <<CHOOSE c \in Digits : DigitValue(c) = n>>
    ELSE Append(IntText(n \div 10), CHOOSE c \in Digits : DigitValue(c) = n % 10)

\* The property expr of a term: the text the term was written as.
TermExpr(term) ==
    CASE term.kind = "ConstantTerm" -> IntText(term.value)
      [] term.kind = "NumericalTerm" -> term.meta_property
      [] term.kind = "CompareTerm" ->
             term.meta_property \o <<" ">> \o term.operator \o <<" ">>
                 \o (CASE term.value.t = "str" ->
                              <<"'">> \o term.value.s \o <<"'">>
                        [] term.value.t = "bool" ->
                              IF term.value.b THEN Text("True")
                              ELSE Text("False")
                        [] term.value.t = "int" -> IntText(term.value.i))

\* _is_sia_linkage_term
IsSiaLinkageTerm(term) ==
    Bind(TermExpr(term), LAMBDA expr :
        Contains(expr, <<"n", "E">>) \/ Contains(expr, <<"n", "S">>))

\* TraitFormula._init_sia_linkage
InitSiaLinkage(numerators, denominators) ==
    \E term \in Range(numerators \o denominators) : IsSiaLinkageTerm(term)

\* TraitFormula(expression, description): __attrs_post_init__ parses the
\* expression; the object exists only if the parser did not raise.
TraitFormula(expression, description) ==
    Bind(ParseFormulaExpression(expression), LAMBDA parsed :
        IF ~parsed.ok THEN parsed
        ELSE Ok([expression |-> expression,
                 description |-> description,
                 name |-> parsed.value.name,
                 numerators |-> parsed.value.numerators,
                 denominators |-> parsed.value.denominators,
                 sia_linkage |-> InitSiaLinkage(parsed.value.numerators,
                                                parsed.value.denominators),
                 initialized |-> FALSE,
                 numerator_array |-> None,
                 denominator_array |-> None]))

\* TraitFormula.initialize: the object after the call, and what the call
\* returned or raised.  Each attribute is assigned as soon as its value is
\* computed.
Initialize(self, meta_property_table) ==
    Bind(InitializeArray(meta_property_table, self.numerators),
         LAMBDA numerator_array :
    IF ~numerator_array.ok
    THEN [self |-> self, outcome |-> numerator_array]
    ELSE Bind(InitializeArray(meta_property_table, self.denominators),
              LAMBDA denominator_array :
         IF ~denominator_array.ok
         THEN [self |-> [self EXCEPT
                            !.numerator_array = numerator_array.value],
               outcome |-> denominator_array]
         ELSE [self |-> [self EXCEPT
                            !.numerator_array = numerator_array.value,
                            !.denominator_array = denominator_array.value,
                            !.initialized = TRUE],
               outcome |-> Ok(None)]))

\* row @ array.values: the dot product by position of one sample's abundances,
\* in column order, and the first n values of an array, in index order.
RECURSIVE Dot(_, _, _, _)
Dot(abundance_table, s, array, n) ==
    IF n = 0 THEN 0
    ELSE Dot(abundance_table, s, array, n - 1)
            + abundance_table.values[s][abundance_table.columns[n]]
                * array.values[array.index[n]]

\* The arithmetic of TraitFormula.calcu_trait: for every sample, the two dot
\* products, NaN in place of a zero denominator, and the quotient.
TraitValues(self, abundance_table) ==
    LET n == Len(abundance_table.columns)
        numerator(s) == Dot(abundance_table, s, self.numerator_array, n)
        denominator(s) == Dot(abundance_table, s, self.denominator_array, n)
    IN  [s \in abundance_table.index |->
            IF denominator(s) = 0 THEN NaN
            ELSE Ratio(numerator(s), denominator(s))]

\* calcu_trait with the alignment inspected ahead of the initialized flag:
\* a weight vector that is still None has no index to compare with.
CalcuTrait_AlignmentFirst(self, abundance_table) ==
    [self |-> self,
     abundance_table |-> abundance_table,
     outcome |->
         IF self.numerator_array = None \/ self.denominator_array = None
         THEN Raise("AttributeError")
         ELSE IF abundance_table.columns # self.numerator_array.index
         THEN Raise("AssertionError")
         ELSE IF abundance_table.columns # self.denominator_array.index
         THEN Raise("AssertionError")
         ELSE IF ~self.initialized THEN Raise("RuntimeError")
         ELSE Ok(TraitValues(self, abundance_table))]

\* calcu_trait that drops the cached weight vectors once it has used them.
CalcuTrait_Consuming(self, abundance_table) ==
    [self |->
         IF self.initialized /\ abundance_table.columns = self.numerator_array.index
               /\ abundance_table.columns = self.denominator_array.index
         THEN [self EXCEPT !.initialized = FALSE,
                           !.numerator_array = None,
                           !.denominator_array = None]
         ELSE self,
     abundance_table |-> abundance_table,
     outcome |->
         IF ~self.initialized THEN Raise("RuntimeError")
         ELSE IF abundance_table.columns # self.numerator_array.index
         THEN Raise("AssertionError")
         ELSE IF abundance_table.columns # self.denominator_array.index
         THEN Raise("AssertionError")
         ELSE Ok(TraitValues(self, abundance_table))]

\* TraitFormula.calcu_trait: the object and the caller's table after the
\* call, and the Series returned (a value for every sample) or the exception
\* raised.
CalcuTrait(self, abundance_table) ==
    [self |-> self,
     abundance_table |-> abundance_table,
     outcome |->
         IF ~self.initialized THEN Raise("RuntimeError")
         ELSE IF abundance_table.columns # self.numerator_array.index
         THEN Raise("AssertionError")
         ELSE IF abundance_table.columns # self.denominator_array.index
         THEN Raise("AssertionError")
         ELSE Ok(TraitValues(self, abundance_table))]

\* ------------------------------------------------------------------------
\* TraitFormula (src/glytrait/trait.py)
\* ------------------------------------------------------------------------

\* TraitFormula(...) built by load_formulas of trait.py from one expression:
\* the expression is parsed, the validators of the fields run and
\* __attrs_post_init__ sets the linkage flag.
Trait_TraitFormula(expression, description) ==
    Bind(ParseExpression(expression), LAMBDA parsed :
        IF ~parsed.ok THEN parsed
        ELSE IF ~FieldsAreValid(parsed.value.num_prop, parsed.value.den_prop,
                                parsed.value.coef)
        THEN Raise("ValueError")
        ELSE Ok([description |-> description,
                 name |-> parsed.value.name,
                 numerator_properties |-> parsed.value.num_prop,
                 denominator_properties |-> parsed.value.den_prop,
                 coefficient |-> parsed.value.coef,
                 sia_linkage |->
                     \E prop \in Range(parsed.value.num_prop
                                          \o parsed.value.den_prop) :
                         prop \in SiaLinkageMetaProperties,
                 initialized |-> FALSE,
                 numerator |-> None,
                 denominator |-> None]))

\* The product of the first n of the named columns for a glycan.
RECURSIVE Trait_Prod(_, _, _, _)
Trait_Prod(meta_property_table, properties, n, g) ==
    IF n = 0 THEN 1
    ELSE LET column == meta_property_table.columns[properties[n]]
         IN  Trait_Prod(meta_property_table, properties, n - 1, g)
                 * AsNumber(column.dtype, column.values[g])

\* TraitFormula._initialize of trait.py
Trait_InitializeArray(meta_property_table, properties) ==
    LET index == meta_property_table.index
    IN  IF Len(properties) = 1 /\ properties[1] = <<".">>
        THEN Ok(Series(index, [g \in Range(index) |-> 1]))
        ELSE IF ~(Range(properties) \subseteq DOMAIN meta_property_table.columns)
        THEN Raise("KeyError")
        ELSE Ok(Series(index,
                       [g \in Range(index) |->
                           Trait_Prod(meta_property_table, properties,
                                      Len(properties), g)]))

\* TraitFormula.initialize of trait.py
Trait_Initialize(self, meta_property_table) ==
    Bind(Trait_InitializeArray(meta_property_table,
                               self.numerator_properties),
         LAMBDA numerator :
    IF ~numerator.ok
    THEN [self |-> self, outcome |-> numerator]
    ELSE Bind(Trait_InitializeArray(meta_property_table,
                                    self.denominator_properties),
              LAMBDA denominator :
         IF ~denominator.ok
         THEN [self |-> [self EXCEPT !.numerator = numerator.value],
               outcome |-> denominator]
         ELSE [self |-> [self EXCEPT !.numerator = numerator.value,
                                     !.denominator = denominator.value,
                                     !.initialized = TRUE],
               outcome |-> Ok(None)]))

\* TraitFormula.calcu_trait of trait.py: the matrix products go by position
\* and raise an Exception (of the matrix product) when the lengths differ; one
\* zero denominator makes every value zero.
Trait_CalcuTrait(self, abundance_table) ==
    LET n == Len(abundance_table.columns)
        numerator(s) == Dot(abundance_table, s, self.numerator, n)
        denominator(s) == Dot(abundance_table, s, self.denominator, n)
        outcome ==
            IF ~self.initialized THEN Raise("RuntimeError")
            ELSE IF n # Len(self.numerator.index) THEN Raise("Exception")
            ELSE IF n # Len(self.denominator.index) THEN Raise("Exception")
            ELSE IF \E s \in abundance_table.index : denominator(s) = 0
            THEN Ok([s \in abundance_table.index |-> Ratio(0, 1)])
            ELSE Ok([s \in abundance_table.index |->
                        Ratio(numerator(s) * self.coefficient[1],
                              denominator(s) * self.coefficient[2])])
    IN  [self |-> self, abundance_table |-> abundance_table,
         outcome |-> outcome]

\* ------------------------------------------------------------------------
\* The formulas of the modelled runs
\* ------------------------------------------------------------------------

Expr_MHy == Text("MHy = (isHighMannose) / (isComplex)")

Expr_MHyCompared == Text("MHy = (isHighMannose == True) / (isComplex == True)")

Expr_CF == Text("CF = (totalFuc > 0) // (type == 'complex')")

Expr_F2 == Text("F2 = totalFuc * totalFuc / 1")

Expr_F1 == Text("F1 = (totalFuc) / (1)")

Expr_FC == Text("FC = totalFuc * (isComplex == True) / (isHighMannose != True)")

Expr_TF == Text("TF = (totalFuc) // (isComplex)")

Expr_FF == Text("FF = (totalFuc * totalFuc) / (.)")

Expr_Half == Text("H = (isComplex) / (.) * 1/2")

\* A boolean and a categorical column, each with a literal of its kind.
ComparedColumns ==
    {<<Text("isComplex"), Text("True")>>, <<Text("type"), Text("'complex'")>>}

\* The formula with one comparison term, as the numerator or as the
\* denominator of a constant.
CompareExpression(column, operator, value, above) ==
    Bind(<<"(">> \o column \o <<" ">> \o operator \o <<" ">> \o value \o <<")">>,
         LAMBDA term :
             IF above THEN Text("X = ") \o term \o Text(" / 1")
             ELSE Text("X = 1 / ") \o term)

CompareExpressions ==
    {CompareExpression(c[1], operator, c[2], above) :
        c \in ComparedColumns, operator \in Operators, above \in BOOLEAN}

\* The expressions a TraitFormula of formula.py is built from.
Expressions ==
    {Expr_MHy, Expr_MHyCompared, Expr_CF, Expr_F2, Expr_F1, Expr_FC}
        \cup CompareExpressions

\* The expressions a TraitFormula of trait.py is built from.
Trait_Expressions == {Expr_MHy, Expr_TF, Expr_FF, Expr_Half}

\* The description of the formulas.
Description == Text("d")

\* ------------------------------------------------------------------------
\* The life of one TraitFormula
\* ------------------------------------------------------------------------

VARIABLES
    module,           \* the module of the object's class: "formula" for
                      \* src/src/glytrait/formula.py, "trait" for
                      \* src/glytrait/trait.py
    expression,       \* the text the object is built from
    formula,          \* the TraitFormula object
    abundance_table,  \* the caller's abundance table
    last,             \* the last call, its arguments and what it returned
                      \* or raised
    user_file,        \* the lines of the formula file of the run
    reader,           \* the frame of the generator reading user_file
    received,         \* the formulas the generator has yielded so far
    glycan,           \* the NGlycan object of the run
    mp_table,         \* the meta-property table built from the glycans
    data_glycans,     \* data.glycans: the glycans of the input data, by
                      \* identifier
    config            \* the Config object of the run

vars ==
    <<module, expression, formula, abundance_table, last, user_file, reader,
      received, glycan, mp_table, data_glycans, config>>

\* The variables of a run that reads a formula file.
file_vars == <<user_file, reader, received>>

\* The variables of a run on glycans.
glycan_vars == <<glycan, mp_table, data_glycans>>

\* The variables of a run on one TraitFormula.
object_vars == <<module, expression, formula, abundance_table>>

\* The state after the construction of the object: every expression of the
\* modelled runs parses.
Init ==
    /\ module \in {"formula", "trait"}
    /\ expression \in
           IF module = "formula" THEN Expressions ELSE Trait_Expressions
    /\ formula =
           IF module = "formula" THEN TraitFormula(expression, Description).value
           ELSE Trait_TraitFormula(expression, Description).value
    /\ abundance_table \in AbundanceTables
    /\ last = [call |-> "__init__", outcome |-> Ok(None)]
    /\ user_file = None
    /\ reader = None
    /\ received = <<>>
    /\ glycan = None
    /\ mp_table = None
    /\ config = None
    /\ data_glycans = None

\* formula.initialize(meta_property_table), of formula.py
initialize(meta_property_table) ==
    /\ module = "formula"
    /\ \E call \in {Initialize(formula, meta_property_table)} :
           /\ formula' = call.self
           /\ last' = [call |-> "initialize",
                       meta_property_table |-> meta_property_table,
                       outcome |-> call.outcome]
    /\ UNCHANGED <<config, module, expression, abundance_table, file_vars, glycan_vars>>

\* formula.calcu_trait(abundance_table), of formula.py
calcu_trait ==
    /\ module = "formula"
    /\ \E call \in {CalcuTrait(formula, abundance_table)} :
           /\ formula' = call.self
           /\ abundance_table' = call.abundance_table
           /\ last' = [call |-> "calcu_trait", outcome |-> call.outcome]
    /\ UNCHANGED <<config, module, expression, file_vars, glycan_vars>>

\* formula.initialize(meta_property_table), of trait.py
Trait_initialize(meta_property_table) ==
    /\ module = "trait"
    /\ \E call \in {Trait_Initialize(formula, meta_property_table)} :
           /\ formula' = call.self
           /\ last' = [call |-> "initialize",
                       meta_property_table |-> meta_property_table,
                       outcome |-> call.outcome]
    /\ UNCHANGED <<config, module, expression, abundance_table, file_vars, glycan_vars>>

\* formula.calcu_trait(abundance_table), of trait.py
Trait_calcu_trait ==
    /\ module = "trait"
    /\ \E call \in {Trait_CalcuTrait(formula, abundance_table)} :
           /\ formula' = call.self
           /\ abundance_table' = call.abundance_table
           /\ last' = [call |-> "calcu_trait", outcome |-> call.outcome]
    /\ UNCHANGED <<config, module, expression, file_vars, glycan_vars>>

Next ==
    \/ \E t \in MetaPropertyTables : initialize(t)
    \/ calcu_trait
    \/ \E t \in MetaPropertyTables : Trait_initialize(t)
    \/ Trait_calcu_trait

Spec == Init /\ [][Next]_vars

\* ------------------------------------------------------------------------
\* Properties of the life of a TraitFormula
\* ------------------------------------------------------------------------

\* The cached weight vectors of the object, of either module.
NumeratorWeights ==
    IF module = "formula" THEN formula.numerator_array ELSE formula.numerator

DenominatorWeights ==
    IF module = "formula" THEN formula.denominator_array
    ELSE formula.denominator

\* The term lists of the object, of either module.
NumeratorTerms ==
    IF module = "formula" THEN formula.numerators
    ELSE formula.numerator_properties

DenominatorTerms ==
    IF module = "formula" THEN formula.denominators
    ELSE formula.denominator_properties

\* The coefficient of the object: trait.py has one, formula.py has none.
Coefficient == IF module = "formula" THEN <<1, 1>> ELSE formula.coefficient

\* Whether the columns of the caller's table are the index of both cached
\* weight vectors: the same identifiers in the same order.
Aligned ==
    /\ abundance_table.columns = NumeratorWeights.index
    /\ abundance_table.columns = DenominatorWeights.index

\* The sum of f over the set S.
RECURSIVE Sum(_, _)
Sum(f, S) ==
    IF S = {} THEN 0
    ELSE Bind(CHOOSE x \in S : TRUE, LAMBDA x : f[x] + Sum(f, S \ {x}))

\* The product of a sequence of numbers.
RECURSIVE Product(_, _)
Product(values, n) ==
    IF n = 0 THEN 1 ELSE Product(values, n - 1) * values[n]

\* dot(row of the sample, weights), glycan by glycan.
Weighted(sample, weights) ==
    Sum([g \in Range(abundance_table.columns) |->
            abundance_table.values[sample][g] * weights.values[g]],
        Range(abundance_table.columns))

\* The value the specification gives to a sample: NaN when the denominator is zero,
\* the quotient (times the coefficient of trait.py) otherwise.
SampleValue(sample) ==
    IF Weighted(sample, DenominatorWeights) = 0 THEN NaN
    ELSE Ratio(Weighted(sample, NumeratorWeights) * Coefficient[1],
               Weighted(sample, DenominatorWeights) * Coefficient[2])

\* The value a term yields for one glycan of a table: a constant, the
\* glycan's value of a numerical column, 1 or 0 for a comparison, and for a
\* property name of trait.py the glycan's value as a number (1 for ".").
TermValue(term, table, g) ==
    IF module = "trait"
    THEN IF term = <<".">> THEN 1
         ELSE AsNumber(table.columns[term].dtype, table.columns[term].values[g])
    ELSE CASE term.kind = "ConstantTerm" -> term.value
           [] term.kind = "NumericalTerm" ->
                  table.columns[term.meta_property].values[g]
           [] term.kind = "CompareTerm" ->
                  IF EvalCompare(table.columns[term.meta_property].dtype,
                                 table.columns[term.meta_property].values[g],
                                 term.operator, term.value).value
                  THEN 1 ELSE 0

\* The weight vector the specification gives to a term list: indexed by the table's
\* glycans, the product of the terms' values for each glycan.
Weights(terms, table) ==
    Series(table.index,
           [g \in Range(table.index) |->
               Product([i \in 1..Len(terms) |-> TermValue(terms[i], table, g)],
                       Len(terms))])

\* C1: calcu_trait on a TraitFormula on which initialize has never completed
\* raises RuntimeError, whatever the abundance table, and returns no values;
\* nothing of the table or of the missing weight vectors is computed first.
C1_UninitializedRaises ==
    (last.call = "calcu_trait" /\ ~formula.initialized)
        => last.outcome = Raise("RuntimeError")

\* A calcu_trait call on an object whose initialize stopped half-way: the
\* numerator weights are cached, the denominators raised.
C1_Witness ==
    /\ last.call = "calcu_trait"
    /\ ~formula.initialized
    /\ NumeratorWeights # None
    /\ last.outcome = Raise("RuntimeError")

\* C2: for an initialized formula and a table aligned with its weights,
\* calcu_trait returns, for every sample independently of the others, NaN
\* when the sample's denominator is zero and numerator / denominator
\* otherwise; a zero denominator never raises.
C2_PerSampleValues ==
    (last.call = "calcu_trait" /\ formula.initialized /\ Aligned)
        => /\ last.outcome.ok
           /\ \A sample \in abundance_table.index :
                  last.outcome.value[sample] = SampleValue(sample)

\* C3: the formula MHy = (isHighMannose) / (isComplex), of bare boolean
\* terms, initializes without error with the weights 1 and 0 of each
\* property, and evaluates to 5/10 when G1 is complex with abundance 10 and G2
\* is high-mannose with abundance 5.
C3_BareBooleanTerms ==
    /\ (expression = Expr_MHy /\ last.call = "initialize")
           => /\ last.outcome.ok
              /\ NumeratorWeights =
                     Series(last.meta_property_table.index,
                            [g \in Range(last.meta_property_table.index) |->
                                IF last.meta_property_table
                                       .columns[Text("isHighMannose")].values[g]
                                THEN 1 ELSE 0])
              /\ DenominatorWeights =
                     Series(last.meta_property_table.index,
                            [g \in Range(last.meta_property_table.index) |->
                                IF last.meta_property_table
                                       .columns[Text("isComplex")].values[g]
                                THEN 1 ELSE 0])
    /\ (/\ expression = Expr_MHy
        /\ last.call = "calcu_trait"
        /\ formula.initialized
        /\ abundance_table.columns = <<"G1", "G2">>
        /\ NumeratorWeights = Series(<<"G1", "G2">>, [G1 |-> 0, G2 |-> 1])
        /\ DenominatorWeights = Series(<<"G1", "G2">>, [G1 |-> 1, G2 |-> 0])
        /\ \A sample \in abundance_table.index :
               abundance_table.values[sample] = [G1 |-> 10, G2 |-> 5])
           => /\ last.outcome.ok
              /\ \A sample \in abundance_table.index :
                     last.outcome.value[sample] = Ratio(5, 10)

\* C4: calcu_trait on an initialized formula changes neither the object
\* (flag, cached weight vectors, term lists) nor the caller's abundance table,
\* and a call that follows another call returns the same values.
C4_PureQuery ==
    [][(last'.call = "calcu_trait" /\ formula.initialized)
           => /\ formula' = formula
              /\ abundance_table' = abundance_table
              /\ (last.call = "calcu_trait" => last'.outcome = last.outcome)]_vars

\* A calcu_trait call that returned values for an initialized formula.
C4_Witness ==
    /\ last.call = "calcu_trait"
    /\ formula.initialized
    /\ last.outcome.ok
    /\ \E sample \in abundance_table.index : last.outcome.value[sample] # NaN

\* C5: after a successful initialize(table), the numerator weights are, for
\* every glycan of the table, the product of the values of the numerator
\* terms, the denominator weights the product of the values of the
\* denominator terms, each from its own term list alone, and both are indexed
\* by the table's glycan index.
C5_WeightsAreProducts ==
    (last.call = "initialize" /\ last.outcome.ok)
        => /\ NumeratorWeights = Weights(NumeratorTerms, last.meta_property_table)
           /\ DenominatorWeights =
                  Weights(DenominatorTerms, last.meta_property_table)

\* A successful initialize of a formula with two numerator terms, on a table
\* with a glycan of non-zero numerator weight.
C5_Witness ==
    /\ last.call = "initialize"
    /\ last.outcome.ok
    /\ Len(NumeratorTerms) >= 2
    /\ \E g \in Range(NumeratorWeights.index) : NumeratorWeights.values[g] > 1

\* The comparison terms of a term list whose operator orders and whose
\* column, in the table, is boolean or categorical.
OrderingOnUnordered(terms, table) ==
    {i \in 1..Len(terms) :
        /\ terms[i].kind = "CompareTerm"
        /\ terms[i].operator \in OrderingOperators
        /\ terms[i].meta_property \in DOMAIN table.columns
        /\ table.columns[terms[i].meta_property].dtype
               \in {"boolean", "category"}}

\* The literal a value text of the comparison expressions converts to.
ComparedValue(text) ==
    IF text = Text("True") THEN BoolValue(TRUE)
    ELSE StrValue(SubSeq(text, 2, Len(text) - 1))

\* Whether the object was built from a comparison expression and holds, in
\* the list the term was written in, the comparison term as written.
HoldsComparisonWritten ==
    \A c \in ComparedColumns, operator \in Operators, above \in BOOLEAN :
        expression = CompareExpression(c[1], operator, c[2], above)
            => (IF above THEN formula.numerators ELSE formula.denominators)
                   = <<CompareTerm(c[1], operator, ComparedValue(c[2]))>>

\* C7: a comparison term with >, >=, <, <= on a boolean or categorical column
\* parses, and initialize raises FormulaError when it evaluates the term: the
\* list of the term gets no weight vector.  With == and != on the same
\* columns, when the table has them, initialize succeeds.
C7_OrderingOnUnorderedFails ==
    module = "formula"
        => /\ HoldsComparisonWritten
           /\ last.call = "initialize"
                  => /\ OrderingOnUnordered(formula.numerators,
                                            last.meta_property_table) # {}
                         => /\ last.outcome = Raise("FormulaError")
                            /\ formula.numerator_array = None
                            /\ ~formula.initialized
                     /\ OrderingOnUnordered(formula.denominators,
                                            last.meta_property_table) # {}
                         => /\ last.outcome = Raise("FormulaError")
                            /\ formula.denominator_array = None
                            /\ ~formula.initialized
                     /\ (/\ expression \in CompareExpressions
                         /\ \A term \in Range(formula.numerators
                                                  \o formula.denominators) :
                                term.kind = "CompareTerm" =>
                                    term.meta_property \in
                                        DOMAIN last.meta_property_table.columns
                         /\ OrderingOnUnordered(formula.numerators
                                                    \o formula.denominators,
                                                last.meta_property_table) = {})
                         => /\ last.outcome.ok
                            /\ formula.initialized

\* An initialize that raised FormulaError on (type >= 'complex'), the
\* denominator, after the numerator weights were cached.
C7_Witness ==
    /\ module = "formula"
    /\ last.call = "initialize"
    /\ expression = CompareExpression(Text("type"), <<">", "=">>,
                                      Text("'complex'"), FALSE)
    /\ last.outcome = Raise("FormulaError")
    /\ formula.numerator_array # None

\* C8: calcu_trait on an initialized formula fails, and returns no values,
\* when the columns of the abundance table differ from the index of a cached
\* weight vector in an identifier or in the order.
C8_AlignmentChecked ==
    (last.call = "calcu_trait" /\ formula.initialized /\ ~Aligned)
        => ~last.outcome.ok


\* ------------------------------------------------------------------------
\* The construction of a TraitFormula from an expression
\* ------------------------------------------------------------------------

\* The texts of one side of the slash.
SideTexts ==
    {Text("(isComplex)"), Text("(isHighMannose)"),
     Text("(isComplex * totalFuc)"), Text("isComplex * totalFuc"),
     Text("(totalFuc > 0)"), Text("totalFuc > 0"), Text("1"), Text("(.)"),
     Text("(. * totalFuc)"), Text("(is-Complex)"), Text("(nE)"),
     Text("(type == 'nE')"), Text("(nSia)"), Text("(a23Sia)")}

\* The slashes: the division and the shortcut.
Slashes == {<<"/">>, <<"/", "/">>}

\* The numerator text, the slash and the denominator text of an expression.
ExpressionParts ==
    [numerator : SideTexts, slash : Slashes, denominator : SideTexts]

\* The expression "T = <numerator> <slash> <denominator>".
Compose(parts) ==
    Text("T = ") \o parts.numerator \o <<" ">> \o parts.slash \o <<" ">>
        \o parts.denominator

Expr_Shortcut == Text("T = (isComplex) // (isHighMannose)")

\* The expression with a second slash after its denominator.
SlashedTwice(first, second) ==
    Text("T = (isComplex) ") \o first \o Text(" (isHighMannose) ") \o second
        \o Text(" (totalFuc)")

\* The expressions of two slashes.
TwiceSlashed ==
    {SlashedTwice(first, second) : first \in Slashes, second \in Slashes}

\* The expressions a TraitFormula is constructed from.
ParseInputs ==
    {Compose(parts) : parts \in ExpressionParts} \cup TwiceSlashed

InitParse ==
    /\ module \in {"formula", "trait"}
    /\ expression \in ParseInputs
    /\ formula = None
    /\ abundance_table = None
    /\ last = [call |-> "none", outcome |-> Ok(None)]
    /\ user_file = None
    /\ reader = None
    /\ received = <<>>
    /\ glycan = None
    /\ mp_table = None
    /\ config = None
    /\ data_glycans = None

\* TraitFormula(expression, description), of formula.py
construct ==
    /\ module = "formula"
    /\ last.call = "none"
    /\ \E made \in {TraitFormula(expression, Description)} :
           /\ formula' = IF made.ok THEN made.value ELSE None
           /\ last' = [call |-> "__init__",
                       outcome |-> IF made.ok THEN Ok(None) ELSE made]
    /\ UNCHANGED <<config, module, expression, abundance_table, file_vars, glycan_vars>>

\* TraitFormula(description, name, ...) on _parse_expression(expression), as
\* load_formulas of trait.py builds it
Trait_construct ==
    /\ module = "trait"
    /\ last.call = "none"
    /\ \E made \in {Trait_TraitFormula(expression, Description)} :
           /\ formula' = IF made.ok THEN made.value ELSE None
           /\ last' = [call |-> "__init__",
                       outcome |-> IF made.ok THEN Ok(None) ELSE made]
    /\ UNCHANGED <<config, module, expression, abundance_table, file_vars, glycan_vars>>

NextParse ==
    \/ construct
    \/ Trait_construct

SpecParse == InitParse /\ [][NextParse]_vars

\* ------------------------------------------------------------------------
\* Properties of the construction
\* ------------------------------------------------------------------------

\* Whether the object of the run has been built.
Constructed == last.call = "__init__" /\ last.outcome.ok

\* The terms written on one side of the slash, read on their own: the terms
\* of formula.py, the property names of trait.py.
TermsWritten(text) ==
    IF module = "formula" THEN ParseTerms(text).value
    ELSE SplitProperties(StripChars(text, Parens))

\* The sides of the slash of the run's expression, when it is one of a
\* numerator, a slash and a denominator.
PartsWritten == {parts \in ExpressionParts : expression = Compose(parts)}

\* C6: the shortcut "//" puts the denominator's terms behind the numerator's
\* own terms: a formula built from "N // D" has the terms of N followed by
\* the terms of D as its numerator and the terms of D as its denominator,
\* while "N / D" keeps the terms of N as the numerator; so
\* "T = (isComplex) // (isHighMannose)" has the numerator isComplex,
\* isHighMannose and the denominator isHighMannose.
C6_ShortcutAppendsDenominator ==
    Constructed =>
        \A parts \in PartsWritten :
        Bind(TermsWritten(parts.numerator), LAMBDA own :
        Bind(TermsWritten(parts.denominator), LAMBDA below :
            /\ DenominatorTerms = below
            /\ parts.slash = <<"/", "/">> => NumeratorTerms = own \o below
            /\ parts.slash = <<"/">> => NumeratorTerms = own
            /\ expression = Expr_Shortcut =>
                   /\ Len(NumeratorTerms) = 2
                   /\ NumeratorTerms[2] = DenominatorTerms[1]
                   /\ NumeratorTerms[1] # DenominatorTerms[1]))

\* A formula built from the expression of the example, with both terms in
\* its numerator.
C6_Witness ==
    /\ Constructed
    /\ expression = Expr_Shortcut
    /\ Len(NumeratorTerms) = 2
    /\ Len(DenominatorTerms) = 1

\* ------------------------------------------------------------------------
\* Formula files (src/src/glytrait/formula.py)
\* ------------------------------------------------------------------------

\* An Optional value that is not None.
Some(v) == [some |-> v]

\* The lines of a record: its description and its expression.
Record(expr) == <<Text("@ d"), Text("$ ") \o expr>>

\* The built-in formula files of the two modes.
default_struc_formula_file ==
    Record(Text("A = (isComplex) / 1"))
        \o Record(Text("S = (nS) / (isComplex)"))

default_comp_formula_file ==
    Record(Text("A = (isHighMannose) / 1"))
        \o Record(Text("K = (totalFuc) / 1"))

\* The records of the user's files: a formula named as a built-in one, two
\* more formulas, one of them on a linkage property, and a second formula
\* of a name already used.
Record_A == Text("A = (totalFuc) / 1")

Record_B == Text("B = (isComplex) // (totalFuc)")

Record_C == Text("C = (nE > 0) / 1")

Record_B2 == Text("B = (totalFuc) / 1")

UserRecords == {Record_A, Record_B, Record_C, Record_B2}

\* The file of a sequence of records.
RECURSIVE FileOf(_, _)
FileOf(records, n) ==
    IF n = 0 THEN <<>> ELSE FileOf(records, n - 1) \o Record(records[n])

\* The files of at most MaxUserRecords records.
RecordFiles ==
    {FileOf(records, Len(records)) :
        records \in UNION {[1..n -> UserRecords] : n \in 0..MaxUserRecords}}

\* Files that are not a sequence of records: a description without an
\* expression, an expression without a description, two descriptions in a
\* row, an expression that does not parse, and a file with blank lines,
\* notes and padding around its one record.
OtherFiles ==
    {<<Text("@ d")>>,
     <<Text("$ ") \o Record_B>>,
     <<Text("@ d"), Text("@ d"), Text("$ ") \o Record_B>>,
     Record(Record_B) \o <<Text("$ ") \o Record_C>>,
     Record(Text("D = isComplex")),
     <<Text(""), Text("  @ d "), Text("# note"), Text(" $") \o Record_C>>}

UserFiles == RecordFiles \cup OtherFiles

Types == {"structure", "composition", "glycan"}

\* The frame of load_formulas_from_file before its first next().
NewReader ==
    [status |-> "created", line_no |-> 0, description |-> None,
     formulas_parsed |-> {}, formula |-> None]

\* The loop of deconvolute_formula_file as it would be if a description
\* line replaced a pending description in place of raising.
RECURSIVE Deconvolute_Replacing(_, _, _)
Deconvolute_Replacing(lines, line_no, description) ==
    IF line_no = Len(lines)
    THEN [line_no |-> line_no,
          outcome |-> IF description # None THEN Raise("FormulaError")
                      ELSE Raise("StopIteration")]
    ELSE Bind(Strip(lines[line_no + 1]), LAMBDA line :
         IF StartsWith(line, <<"@">>)
         THEN Bind(Some(Strip(From(line, 2))), LAMBDA d :
                  Deconvolute_Replacing(lines, line_no + 1, d))
         ELSE IF StartsWith(line, <<"$">>)
         THEN IF description = None
              THEN [line_no |-> line_no + 1, outcome |-> Raise("FormulaError")]
              ELSE [line_no |-> line_no + 1,
                    outcome |-> Ok([description |-> description.some,
                                    expression |-> Strip(From(line, 2))])]
         ELSE Deconvolute_Replacing(lines, line_no + 1, description))

\* The loop of deconvolute_formula_file from the line after line_no, with
\* the pending description, up to its next yield, its raise or its end:
\* the number of lines read and the pair yielded or the exception.
RECURSIVE Deconvolute(_, _, _)
Deconvolute(lines, line_no, description) ==
    IF line_no = Len(lines)
    THEN [line_no |-> line_no,
          outcome |-> IF description # None THEN Raise("FormulaError")
                      ELSE Raise("StopIteration")]
    ELSE Bind(Strip(lines[line_no + 1]), LAMBDA line :
         IF StartsWith(line, <<"@">>)
         THEN IF description # None
              THEN [line_no |-> line_no + 1, outcome |-> Raise("FormulaError")]
              ELSE Bind(Some(Strip(From(line, 2))), LAMBDA d :
                       Deconvolute(lines, line_no + 1, d))
         ELSE IF StartsWith(line, <<"$">>)
         THEN IF description = None
              THEN [line_no |-> line_no + 1, outcome |-> Raise("FormulaError")]
              ELSE [line_no |-> line_no + 1,
                    outcome |-> Ok([description |-> description.some,
                                    expression |-> Strip(From(line, 2))])]
         ELSE Deconvolute(lines, line_no + 1, description))

\* One next() on the generator load_formulas_from_file(lines) in the frame
\* frame: the frame it is left in, and the formula it yields or the
\* exception it raises (StopIteration at its end, and ever after).  A
\* generator resumed at its yield first adds the name of the formula it
\* yielded to formulas_parsed, and deconvolute_formula_file, resumed at its
\* own yield, clears its description.
NextFormula(lines, frame) ==
    IF frame.status = "finished"
    THEN [reader |-> frame, outcome |-> Raise("StopIteration")]
    ELSE
    Bind(IF frame.status = "suspended"
         THEN frame.formulas_parsed \cup {frame.formula.name}
         ELSE frame.formulas_parsed, LAMBDA formulas_parsed :
    Bind(Deconvolute(lines, frame.line_no, None), LAMBDA pair :
    IF ~pair.outcome.ok
    THEN [reader |-> [status |-> "finished", line_no |-> pair.line_no,
                      description |-> None,
                      formulas_parsed |-> formulas_parsed, formula |-> None],
          outcome |-> pair.outcome]
    ELSE Bind(TraitFormula(pair.outcome.value.expression,
                           pair.outcome.value.description), LAMBDA made :
         IF ~made.ok
         THEN [reader |-> [status |-> "finished", line_no |-> pair.line_no,
                           description |-> None,
                           formulas_parsed |-> formulas_parsed,
                           formula |-> None],
               outcome |-> made]
         ELSE IF made.value.name \in formulas_parsed
         THEN [reader |-> [status |-> "finished", line_no |-> pair.line_no,
                           description |-> None,
                           formulas_parsed |-> formulas_parsed,
                           formula |-> None],
               outcome |-> Raise("FormulaError")]
         ELSE [reader |-> [status |-> "suspended", line_no |-> pair.line_no,
                           description |->
                               Some(pair.outcome.value.description),
                           formulas_parsed |-> formulas_parsed,
                           formula |-> made.value],
               outcome |-> made])))

\* The iteration of the generator from the given frame to its end: the
\* formulas it yields after those already taken, or the exception it raises.
RECURSIVE FormulasFrom(_, _, _)
FormulasFrom(lines, frame, formulas) ==
    Bind(NextFormula(lines, frame), LAMBDA step :
        IF step.outcome.ok
        THEN Bind(Append(formulas, step.outcome.value), LAMBDA taken :
                 FormulasFrom(lines, step.reader, taken))
        ELSE IF step.outcome.error = "StopIteration" THEN Ok(formulas)
        ELSE step.outcome)

\* list(load_formulas_from_file(filepath))
LoadFormulasFromFile(lines) == FormulasFrom(lines, NewReader, <<>>)

\* list(load_default_formulas(type_))
LoadDefaultFormulas(type_) ==
    IF type_ = "composition" THEN LoadFormulasFromFile(default_comp_formula_file)
    ELSE IF type_ = "structure"
    THEN LoadFormulasFromFile(default_struc_formula_file)
    ELSE Raise("ValueError")

\* load_formulas as it would be if it appended every formula of the user's
\* file.
LoadFormulas_AppendingAll(type_, file, sia_linkage) ==
    Bind(LoadDefaultFormulas(type_), LAMBDA default :
    IF ~default.ok THEN default
    ELSE Bind(IF file = None THEN Ok(<<>>)
              ELSE LoadFormulasFromFile(file.some), LAMBDA user :
    IF ~user.ok THEN user
    ELSE Bind(default.value \o user.value, LAMBDA formulas :
         Ok(IF ~sia_linkage
            THEN SelectSeq(formulas, LAMBDA f : ~f.sia_linkage)
            ELSE formulas))))

\* load_formulas as it would be if it returned the list without the final
\* test of sia_linkage.
LoadFormulas_Unfiltered(type_, file, sia_linkage) ==
    Bind(LoadDefaultFormulas(type_), LAMBDA default :
    IF ~default.ok THEN default
    ELSE Bind(IF file = None THEN Ok(<<>>)
              ELSE LoadFormulasFromFile(file.some), LAMBDA user :
    IF ~user.ok THEN user
    ELSE Bind({f.name : f \in Range(default.value)},
              LAMBDA default_formula_names :
         Ok(default.value
                \o SelectSeq(user.value,
                             LAMBDA f : f.name \notin default_formula_names)))))

\* load_formulas
LoadFormulas(type_, file, sia_linkage) ==
    Bind(LoadDefaultFormulas(type_), LAMBDA default :
    IF ~default.ok THEN default
    ELSE Bind(IF file = None THEN Ok(<<>>)
              ELSE LoadFormulasFromFile(file.some), LAMBDA user :
    IF ~user.ok THEN user
    ELSE Bind({f.name : f \in Range(default.value)},
              LAMBDA default_formula_names :
         Bind(default.value
                  \o SelectSeq(user.value,
                               LAMBDA f : f.name \notin default_formula_names),
              LAMBDA formulas :
         Ok(IF ~sia_linkage
            THEN SelectSeq(formulas, LAMBDA f : ~f.sia_linkage)
            ELSE formulas)))))

\* ------------------------------------------------------------------------
\* A run that reads a formula file: the consumer either iterates the
\* generator load_formulas_from_file(user_file), or calls load_formulas
\* ------------------------------------------------------------------------

InitLoad ==
    /\ module = "formula"
    /\ expression = <<>>
    /\ formula = None
    /\ abundance_table = None
    /\ last = [call |-> "none", outcome |-> Ok(None)]
    /\ user_file \in UserFiles
    /\ reader = NewReader
    /\ received = <<>>
    /\ glycan = None
    /\ mp_table = None
    /\ config = None
    /\ data_glycans = None

\* next(generator), for the generator load_formulas_from_file(user_file)
next_formula ==
    /\ module = "formula"
    /\ last.call # "load_formulas"
    /\ \E step \in {NextFormula(user_file, reader)} :
           /\ reader' = step.reader
           /\ received' = IF step.outcome.ok
                          THEN Append(received, step.outcome.value)
                          ELSE received
           /\ last' = [call |-> "next", outcome |-> step.outcome]
    /\ UNCHANGED <<config, object_vars, user_file, glycan_vars>>

\* load_formulas(type_, user_file, sia_linkage), with the user's file or
\* with None
load_formulas(type_, with_user_file, sia_linkage) ==
    /\ last.call = "none"
    /\ \E file \in {IF with_user_file THEN Some(user_file) ELSE None} :
           last' = [call |-> "load_formulas", type_ |-> type_,
                    user_file |-> file, sia_linkage |-> sia_linkage,
                    outcome |-> LoadFormulas(type_, file, sia_linkage)]
    /\ UNCHANGED <<config, object_vars, file_vars, glycan_vars>>

NextLoad ==
    \/ next_formula
    \/ \E type_ \in Types, with_user_file \in BOOLEAN, sia_linkage \in BOOLEAN :
           load_formulas(type_, with_user_file, sia_linkage)

SpecLoad == InitLoad /\ [][NextLoad]_vars

\* ------------------------------------------------------------------------
\* Properties of the reading of formula files
\* ------------------------------------------------------------------------

\* The expressions written on the "$" lines of a file, in file order.
RECURSIVE ExpressionsWritten(_, _)
ExpressionsWritten(lines, n) ==
    IF n = 0 THEN <<>>
    ELSE Bind(Strip(lines[n]), LAMBDA line :
             IF StartsWith(line, <<"$">>)
             THEN Append(ExpressionsWritten(lines, n - 1), Strip(From(line, 2)))
             ELSE ExpressionsWritten(lines, n - 1))

\* The name an expression gives to its formula: the text before " = ".
NameWritten(expr) == Strip(Upto(expr, FindFrom(expr, Text(" = "), 1) - 1))

\* The definitions of a file: the name and the expression of each record.
RECURSIVE Definitions(_, _)
Definitions(exprs, n) ==
    IF n = 0 THEN <<>>
    ELSE Append(Definitions(exprs, n - 1),
                [name |-> NameWritten(exprs[n]), expression |-> exprs[n]])

DefinitionsWritten(lines) ==
    Bind(ExpressionsWritten(lines, Len(lines)), LAMBDA exprs :
        Definitions(exprs, Len(exprs)))

\* The definitions of a list of formulas.
RECURSIVE DefinitionsOf(_, _)
DefinitionsOf(formulas, n) ==
    IF n = 0 THEN <<>>
    ELSE Append(DefinitionsOf(formulas, n - 1),
                [name |-> formulas[n].name,
                 expression |-> formulas[n].expression])

\* Whether two records of the file have the same name.
HasDuplicateNames(lines) ==
    Bind(DefinitionsWritten(lines), LAMBDA written :
        \E i, j \in 1..Len(written) : i < j /\ written[i].name = written[j].name)

\* Whether the file is a sequence of records of distinct names.
IsProper(lines) == lines \in RecordFiles /\ ~HasDuplicateNames(lines)

\* Whether the terms of an expression mention a linkage property.
MentionsLinkage(expr) ==
    Bind(From(expr, FindFrom(expr, Text(" = "), 1) + 3), LAMBDA terms :
        Contains(terms, <<"n", "E">>) \/ Contains(terms, <<"n", "S">>))

\* C9: when two records of a formula file have the same name, the reading
\* of the file raises FormulaError with no formula of the file handed to the
\* consumer before the error.
C9_NothingYieldedBeforeDuplicate ==
    (/\ last.call = "next"
     /\ last.outcome = Raise("FormulaError")
     /\ HasDuplicateNames(user_file)) => received = <<>>

\* The definitions load_formulas is to return for its arguments: those of
\* the built-in file, then those of the user's file whose name is not the
\* name of a built-in formula, less those on linkage properties when
\* sia_linkage is false.
DefinitionsExpected(type_, file, sia_linkage) ==
    Bind(DefinitionsWritten(IF type_ = "composition"
                            THEN default_comp_formula_file
                            ELSE default_struc_formula_file), LAMBDA builtin :
    Bind(IF file = None THEN <<>> ELSE DefinitionsWritten(file.some),
         LAMBDA user :
    Bind(builtin \o SelectSeq(user, LAMBDA u :
                        \A i \in 1..Len(builtin) : builtin[i].name # u.name),
         LAMBDA kept :
        IF sia_linkage THEN kept
        ELSE SelectSeq(kept, LAMBDA k : ~MentionsLinkage(k.expression)))))

\* C10: load_formulas returns the built-in formulas in file order, then the
\* formulas of the user's file in file order; a user formula is appended
\* exactly when its name is not the name of a built-in formula, a user
\* formula of a built-in name is left out without an error, and every
\* built-in formula keeps its own definition.
C10_BuiltinsThenNewUserFormulas ==
    last.call = "load_formulas" =>
        /\ last.outcome.ok =>
               DefinitionsOf(last.outcome.value, Len(last.outcome.value))
                   = DefinitionsExpected(last.type_, last.user_file,
                                         last.sia_linkage)
        /\ (/\ last.type_ \in {"structure", "composition"}
            /\ last.user_file # None
            /\ IsProper(user_file)) => last.outcome.ok

\* A call with a file of three records, the first of a built-in name: the
\* list returned has the two built-in formulas, then the other two.
C10_Witness ==
    /\ last.call = "load_formulas"
    /\ last.outcome.ok
    /\ last.type_ = "structure"
    /\ last.sia_linkage
    /\ last.user_file = Some(Record(Record_A) \o Record(Record_B)
                                 \o Record(Record_C))
    /\ Len(last.outcome.value) = 4
    /\ last.outcome.value[1].expression = Text("A = (isComplex) / 1")
    /\ last.outcome.value[3].name = <<"B">>
    /\ last.outcome.value[4].name = <<"C">>

\* The list load_formulas builds for the arguments of the last call before
\* its final test of sia_linkage.
FormulasBeforeFilter == LoadFormulas(last.type_, last.user_file, TRUE)

\* C11: when sia_linkage is false the list load_formulas returns holds no
\* formula whose sia_linkage flag is true and holds every formula whose flag
\* is false, in the order they had; when sia_linkage is true the final
\* filter removes no formula.
C11_LinkageFilter ==
    (last.call = "load_formulas" /\ last.outcome.ok) =>
        /\ ~last.sia_linkage =>
               /\ \A i \in 1..Len(last.outcome.value) :
                      ~last.outcome.value[i].sia_linkage
               /\ last.outcome.value
                      = SelectSeq(FormulasBeforeFilter.value,
                                  LAMBDA f : ~f.sia_linkage)
        /\ last.sia_linkage =>
               DefinitionsOf(last.outcome.value, Len(last.outcome.value))
                   = DefinitionsExpected(last.type_, last.user_file, TRUE)

\* A call without linkage information on the structure formulas and a file
\* of two formulas, the second on a linkage property: of the four formulas
\* built, the built-in S and the user's C are removed and A, B are returned.
C11_Witness ==
    /\ last.call = "load_formulas"
    /\ last.outcome.ok
    /\ ~last.sia_linkage
    /\ last.type_ = "structure"
    /\ last.user_file = Some(Record(Record_B) \o Record(Record_C))
    /\ Len(FormulasBeforeFilter.value) = 4
    /\ FormulasBeforeFilter.value[2].sia_linkage
    /\ Len(last.outcome.value) = 2
    /\ last.outcome.value[1].name = <<"A">>
    /\ last.outcome.value[2].name = <<"B">>

\* ------------------------------------------------------------------------
\* The reading of a formula file, line by line: deconvolute_formula_file of
\* formula.py and load_formulas of trait.py
\* ------------------------------------------------------------------------

\* The lines of the files read: two descriptions, two expressions that
\* both modules parse, and a line that is neither.
FileLines ==
    {Text("@ x"), Text("@ y"),
     Text("$ P = (isComplex) / (totalFuc)"),
     Text("$ Q = (totalFuc) // (isComplex)"),
     Text("note")}

\* The files of at most MaxFileLines lines.
LineFiles == UNION {[1..n -> FileLines] : n \in 0..MaxFileLines}

\* The frame of deconvolute_formula_file, and of load_formulas of trait.py,
\* before the first next().
NewLineReader == [status |-> "created", line_no |-> 0, description |-> None]

\* One next() on the generator deconvolute_formula_file(lines) in the given
\* frame: the frame it is left in, and the pair it yields or the exception
\* it raises.  Resumed at its yield, the generator clears its description.
NextPair(lines, frame) ==
    IF frame.status = "finished"
    THEN [reader |-> frame, outcome |-> Raise("StopIteration")]
    ELSE Bind(Deconvolute(lines, frame.line_no, None), LAMBDA pair :
         [reader |-> [status |-> IF pair.outcome.ok THEN "suspended"
                                 ELSE "finished",
                      line_no |-> pair.line_no,
                      description |->
                          IF pair.outcome.ok
                          THEN Some(pair.outcome.value.description)
                          ELSE None],
          outcome |-> pair.outcome])

\* The loop of load_formulas of trait.py from the line after line_no, with
\* the pending description, up to its next yield, its raise or its end: the
\* number of lines read and the formula yielded or the exception.
RECURSIVE Trait_Read(_, _, _)
Trait_Read(lines, line_no, description) ==
    IF line_no = Len(lines)
    THEN [line_no |-> line_no,
          outcome |-> IF description # None THEN Raise("FormulaParseError")
                      ELSE Raise("StopIteration")]
    ELSE Bind(lines[line_no + 1], LAMBDA line :
         IF StartsWith(line, <<"@">>)
         THEN IF description # None
              THEN [line_no |-> line_no + 1,
                    outcome |-> Raise("FormulaParseError")]
              ELSE Bind(Some(Strip(From(line, 2))), LAMBDA d :
                       Trait_Read(lines, line_no + 1, d))
         ELSE IF StartsWith(line, <<"$">>)
         THEN IF description = None
              THEN [line_no |-> line_no + 1,
                    outcome |-> Raise("FormulaParseError")]
              ELSE [line_no |-> line_no + 1,
                    outcome |-> Trait_TraitFormula(Strip(From(line, 2)),
                                                   description.some)]
         ELSE Trait_Read(lines, line_no + 1, description))

\* One next() on the generator load_formulas(lines) of trait.py in the
\* given frame.
Trait_NextFormula(lines, frame) ==
    IF frame.status = "finished"
    THEN [reader |-> frame, outcome |-> Raise("StopIteration")]
    ELSE Bind(Trait_Read(lines, frame.line_no, None), LAMBDA step :
         [reader |-> [status |-> IF step.outcome.ok THEN "suspended"
                                 ELSE "finished",
                      line_no |-> step.line_no,
                      description |->
                          IF step.outcome.ok
                          THEN Some(step.outcome.value.description)
                          ELSE None],
          outcome |-> step.outcome])

InitRead ==
    /\ module \in {"formula", "trait"}
    /\ expression = <<>>
    /\ formula = None
    /\ abundance_table = None
    /\ last = [call |-> "none", outcome |-> Ok(None)]
    /\ user_file \in LineFiles
    /\ reader = NewLineReader
    /\ received = <<>>
    /\ glycan = None
    /\ mp_table = None
    /\ config = None
    /\ data_glycans = None

\* next(generator), for the generator deconvolute_formula_file(user_file)
next_pair ==
    /\ module = "formula"
    /\ \E step \in {NextPair(user_file, reader)} :
           /\ reader' = step.reader
           /\ received' = IF step.outcome.ok
                          THEN Append(received, step.outcome.value)
                          ELSE received
           /\ last' = [call |-> "next", outcome |-> step.outcome]
    /\ UNCHANGED <<config, object_vars, user_file, glycan_vars>>

\* next(generator), for the generator load_formulas(user_file) of trait.py
Trait_next_formula ==
    /\ module = "trait"
    /\ \E step \in {Trait_NextFormula(user_file, reader)} :
           /\ reader' = step.reader
           /\ received' = IF step.outcome.ok
                          THEN Append(received, step.outcome.value)
                          ELSE received
           /\ last' = [call |-> "next", outcome |-> step.outcome]
    /\ UNCHANGED <<config, object_vars, user_file, glycan_vars>>

NextRead ==
    \/ next_pair
    \/ Trait_next_formula

SpecRead == InitRead /\ [][NextRead]_vars

\* ------------------------------------------------------------------------
\* Properties of the reading line by line
\* ------------------------------------------------------------------------

\* The positions of the lines of a file that begin with one of the marks.
LinesMarked(lines, marks) ==
    {i \in 1..Len(lines) : Len(lines[i]) > 0 /\ lines[i][1] \in marks}

\* The members of a set of numbers in increasing order.
RECURSIVE Ascending(_)
Ascending(S) ==
    IF S = {} THEN <<>>
    ELSE Bind(Max(S), LAMBDA top : Append(Ascending(S \ {top}), top))

\* Whether the "@" and "$" lines of a file alternate one to one: the marked
\* lines are an "@" line, a "$" line, an "@" line, a "$" line, and so on, and
\* end with a "$" line.
Alternates(lines) ==
    Bind(Ascending(LinesMarked(lines, {"@", "$"})), LAMBDA marked :
        /\ Len(marked) % 2 = 0
        /\ \A k \in 1..Len(marked) :
               lines[marked[k]][1] = IF k % 2 = 1 THEN "@" ELSE "$")

\* The pair written for the "$" line at position i: the text of the line,
\* with the text of the last "@" line before it; None if there is no such
\* line.
PairWritten(lines, i) ==
    Bind({k \in LinesMarked(lines, {"@"}) : k < i}, LAMBDA before :
        IF before = {} THEN None
        ELSE [description |-> Strip(From(lines[Max(before)], 2)),
              expression |-> Strip(From(lines[i], 2))])

\* What the consumer received, as pairs: the pairs of formula.py, and the
\* description and the name of the formulas of trait.py.
PairReceived(item) ==
    IF module = "formula" THEN item
    ELSE [description |-> item.description, name |-> item.name]

\* A pair written, as the consumer of the module receives it.
PairExpected(pair) ==
    IF module = "formula" \/ pair = None THEN pair
    ELSE [description |-> pair.description,
          name |-> NameWritten(pair.expression)]

\* The format error of the module.
FormatError ==
    IF module = "formula" THEN Raise("FormulaError")
    ELSE Raise("FormulaParseError")

\* What has been received is what the first "$" lines of the file give, one
\* for one and in order.
ReceivedAsWritten ==
    Bind(Ascending(LinesMarked(user_file, {"$"})), LAMBDA dollars :
        /\ Len(received) <= Len(dollars)
        /\ \A j \in 1..Len(received) :
               PairReceived(received[j])
                   = PairExpected(PairWritten(user_file, dollars[j])))

\* The step that ends the reading ends it by exhaustion, with one item
\* received per "$" line, if the file alternates, and by the format error
\* if it does not.
EndsAsWritten ==
    (reader.status # "finished" /\ reader'.status = "finished") =>
        IF Alternates(user_file)
        THEN /\ last'.outcome = Raise("StopIteration")
             /\ Len(received') = Cardinality(LinesMarked(user_file, {"$"}))
        ELSE last'.outcome = FormatError

\* C12: the reading of a formula file yields one (description, expression)
\* pair per "$" line, each with the "@" line that most recently precedes
\* it, in file order; and it fails with the format error for every file
\* whose "@" and "$" lines do not alternate one to one: two "@" lines with
\* no "$" line between them, a "$" line with no unconsumed "@" line before
\* it, or a last "@" line with no "$" line after it.
C12_PairsAndFormatErrors == []ReceivedAsWritten /\ [][EndsAsWritten]_vars

\* A file of a record followed by a second "$" line: the pair of the record
\* has been received and the reading has ended by the format error.
C12_Witness ==
    /\ user_file = <<Text("@ x"), Text("$ P = (isComplex) / (totalFuc)"),
                     Text("$ Q = (totalFuc) // (isComplex)")>>
    /\ Len(received) = 1
    /\ PairReceived(received[1]).description = <<"x">>
    /\ reader.status = "finished"
    /\ last.outcome = FormatError

\* ------------------------------------------------------------------------
\* Properties of the rejection of expressions
\* ------------------------------------------------------------------------

\* The body of an expression: the text after the name and " = ".
BodyWritten(expr) == From(expr, FindFrom(expr, Text(" = "), 1) + 3)

\* The number of slash splitters of a text: "/" and "//" each count once.
SlashOccurrences(s) ==
    Cardinality({i \in 1..Len(s) : s[i] = "/" /\ (i = 1 \/ s[i - 1] # "/")})

\* C13: an expression whose body has more than one slash splitter, "/" and
\* "//" counted together, is rejected with FormulaParseError, and no
\* TraitFormula is constructed from it.
C13_ManySlashesRejected ==
    (last.call = "__init__" /\ SlashOccurrences(BodyWritten(expression)) > 1)
        => (last.outcome = Raise("FormulaParseError") /\ formula = None)

\* The terms written on one side of the slash: the pieces between "*",
\* without the blanks and the parentheses around them.
RECURSIVE BareEach(_, _)
BareEach(pieces, n) ==
    IF n = 0 THEN <<>>
    ELSE Append(BareEach(pieces, n - 1),
                StripChars(Strip(pieces[n]), Parens))

PiecesWritten(side) ==
    Bind(Split(side, <<"*">>), LAMBDA pieces : BareEach(pieces, Len(pieces)))

\* Whether a term written is a property name, not a comparison, with a
\* character that is not a word character, and is not the reserved ".".
IsBadName(term) ==
    /\ ~HasOperator(term)
    /\ term # <<".">>
    /\ \E i \in 1..Len(term) : term[i] \notin WordChars

\* C14: an expression with a property name that has a character outside the
\* word characters, the reserved term "." apart, is rejected at parse time
\* with FormulaParseError.
C14_BadNamesRejected ==
    (/\ last.call = "__init__"
     /\ \E parts \in PartsWritten :
            \E term \in Range(PiecesWritten(parts.numerator))
                            \cup Range(PiecesWritten(parts.denominator)) :
                IsBadName(term))
        => last.outcome = Raise("FormulaParseError")

\* Whether "." is written together with other terms in the numerator list,
\* extended by the denominator's terms under "//", or in the denominator
\* list.
DotAmongOthers(parts) ==
    Bind(PiecesWritten(parts.denominator), LAMBDA below :
    Bind(IF parts.slash = <<"/", "/">>
         THEN PiecesWritten(parts.numerator) \o below
         ELSE PiecesWritten(parts.numerator), LAMBDA above :
        \E list \in {above, below} :
            <<".">> \in Range(list) /\ Len(list) > 1))

\* C15: a formula that uses the reserved "." together with other terms in
\* one list, the numerator list extended by "//" included, is rejected: its
\* construction raises.
C15_DotAmongOthersRejected ==
    (last.call = "__init__" /\ \E parts \in PartsWritten : DotAmongOthers(parts))
        => (~last.outcome.ok /\ formula = None)

\* ---------------------------------------------------------------------------
\* Glycans: src/glytrait/glycan.py
\* ---------------------------------------------------------------------------

\* A glypy glycan is a tree of monosaccharides: a sequence of nodes, the id
\* of a node being its index.  A node has its monosaccharide, the id of its
\* parent (0 for the root) and the position on the parent its link attaches
\* to (-1 when the notation leaves it unknown).  The children of a node are
\* visited in the order of their ids.
Node(mono, parent, position) ==
    [mono |-> mono, parent |-> parent, position |-> position]

\* glycan.add(mono) under a parent, as glycoct_loads builds the tree
Attach(tree, mono, parent, position) ==
    Append(tree, Node(mono, parent, position))

RECURSIVE ChildrenFrom(_, _, _)
ChildrenFrom(tree, id, from) ==
    IF from > Len(tree) THEN <<>>
    ELSE (IF tree[from].parent = id THEN <<from>> ELSE <<>>)
             \o ChildrenFrom(tree, id, from + 1)

\* node.children(), the ids in the order of the links
Children(tree, id) == ChildrenFrom(tree, id, 1)

\* len(node.links): the link to the parent and the links to the children
LenLinks(tree, id) ==
    Len(Children(tree, id)) + (IF tree[id].parent = 0 THEN 0 ELSE 1)

RECURSIVE BreadthFirst(_, _)
BreadthFirst(tree, queue) ==
    IF queue = <<>> THEN <<>>
    ELSE <<Head(queue)>>
             \o BreadthFirst(tree, Tail(queue) \o Children(tree, Head(queue)))

\* self._glypy_glycan.breadth_first_traversal(): from the root, a queue of
\* the nodes to visit
GlypyBreadthFirstTraversal(tree) == BreadthFirst(tree, Children(tree, 0))

\* get_mono_comp(node)
get_mono_comp(tree, id) == tree[id].mono

\* self._breadth_first_traversal(skip)
BreadthFirstTraversal(tree, skip) ==
    SelectSeq(GlypyBreadthFirstTraversal(tree),
              LAMBDA id : get_mono_comp(tree, id) \notin skip)

Monosaccharides == {"Glc2NAc", "Man", "Gal", "Neu5Ac", "Fuc"}

\* GlycanComposition.from_glycan(glycan): the number of nodes of each
\* monosaccharide
Composition(tree) ==
    [mono \in Monosaccharides |->
        Cardinality({id \in 1..Len(tree) : tree[id].mono = mono})]

\* N_glycan_core, "{Man:3; Glc2NAc:2}"
N_glycan_core ==
    [mono \in Monosaccharides |->
        IF mono = "Man" THEN 3 ELSE IF mono = "Glc2NAc" THEN 2 ELSE 0]

should_be == <<"Glc2NAc", "Glc2NAc", "Man", "Man", "Man">>

\* The loop of _init_cores over the fucose-skipping traversal.
RECURSIVE CollectCores(_, _, _)
CollectCores(tree, nodes, cores) ==
    IF nodes = <<>> \/ Len(cores) = 5 THEN cores
    ELSE CollectCores(tree, Tail(nodes),
             IF get_mono_comp(tree, Head(nodes)) = should_be[Len(cores) + 1]
             THEN Append(cores, Head(nodes)) ELSE cores)

\* sorted(core_comps), for the names the core can hold
SortedComps(tree, cores) ==
    [i \in 1..Len(cores) |->
        IF i <= Cardinality({j \in 1..Len(cores) :
                                 get_mono_comp(tree, cores[j]) = "Glc2NAc"})
        THEN "Glc2NAc" ELSE "Man"]

\* self._check_cores(cores): whether the check passes
CheckCores(tree, cores) ==
    /\ \A j \in 1..Len(cores) :
           get_mono_comp(tree, cores[j]) \in {"Glc2NAc", "Man"}
    /\ SortedComps(tree, cores) = should_be

\* A constructor that reports an invalid core as a parse error.
NGlycan_ParseError(tree) ==
    Bind(CollectCores(tree, BreadthFirstTraversal(tree, {"Fuc"}), <<>>),
         LAMBDA cores :
             IF CheckCores(tree, cores)
             THEN Ok([glypy_glycan |-> tree,
                      composition |-> Composition(tree),
                      cores |-> cores])
             ELSE Raise("StructureParseError"))

\* NGlycan(glypy_glycan): __attrs_post_init__, with _init_composition and
\* _init_cores
NGlycan(tree) ==
    Bind(CollectCores(tree, BreadthFirstTraversal(tree, {"Fuc"}), <<>>),
         LAMBDA cores :
             IF CheckCores(tree, cores)
             THEN Ok([glypy_glycan |-> tree,
                      composition |-> Composition(tree),
                      cores |-> cores])
             ELSE Raise("ValueError"))

\* self.is_bisecting()
IsBisecting(self) ==
    LenLinks(self.glypy_glycan,
             BreadthFirstTraversal(self.glypy_glycan, {"Fuc"})[3]) = 4

\* A reordering of the classification: the terminus test before the GlcNAc
\* count.
Type_TerminusFirst(self) ==
    Bind(BreadthFirstTraversal(self.glypy_glycan, {"Fuc"}),
         LAMBDA nodes :
             IF self.composition = N_glycan_core THEN "COMPLEX"
             ELSE IF IsBisecting(self) THEN "COMPLEX"
             ELSE IF \/ LenLinks(self.glypy_glycan, nodes[4]) = 1
                     \/ LenLinks(self.glypy_glycan, nodes[5]) = 1
                  THEN "COMPLEX"
             ELSE IF self.composition["Glc2NAc"] = 2 THEN "HIGH_MANNOSE"
             ELSE IF self.composition["Glc2NAc"] = 3 THEN "HYBRID"
             ELSE "COMPLEX")

\* A reordering of the classification: the count of three GlcNAc before the
\* terminus test.
Type_HybridFirst(self) ==
    Bind(BreadthFirstTraversal(self.glypy_glycan, {"Fuc"}),
         LAMBDA nodes :
             IF self.composition = N_glycan_core THEN "COMPLEX"
             ELSE IF IsBisecting(self) THEN "COMPLEX"
             ELSE IF self.composition["Glc2NAc"] = 2 THEN "HIGH_MANNOSE"
             ELSE IF self.composition["Glc2NAc"] = 3 THEN "HYBRID"
             ELSE "COMPLEX")

\* self.type
Type(self) ==
    Bind(BreadthFirstTraversal(self.glypy_glycan, {"Fuc"}),
         LAMBDA nodes :
             IF self.composition = N_glycan_core THEN "COMPLEX"
             ELSE IF IsBisecting(self) THEN "COMPLEX"
             ELSE IF self.composition["Glc2NAc"] = 2 THEN "HIGH_MANNOSE"
             ELSE IF \/ LenLinks(self.glypy_glycan, nodes[4]) = 1
                     \/ LenLinks(self.glypy_glycan, nodes[5]) = 1
                  THEN "COMPLEX"
             ELSE IF self.composition["Glc2NAc"] = 3 THEN "HYBRID"
             ELSE "COMPLEX")

\* self.is_complex(), self.is_high_mannose(), self.is_hybrid()
IsComplex(self) == Type(self) = "COMPLEX"
IsHighMannose(self) == Type(self) = "HIGH_MANNOSE"
IsHybrid(self) == Type(self) = "HYBRID"

\* The glycans of the modelled runs, as glycoct_loads gives them.  An arm is
\* what one of the two outer mannoses of the core carries: its nodes in the
\* order of their ids, each with its parent (0 for the mannose, k for the
\* k-th node of the arm) and the position of its link (0 for a link that is
\* annotated when the notation of the glycan annotates its links).  The
\* first outer mannose carries an arm that is not after the arm of the
\* second one in this list.
Arms ==
    << <<>>,
       << <<"Man", 0, 0>> >>,
       << <<"Man", 0, 0>>, <<"Man", 0, 0>> >>,
       << <<"Glc2NAc", 0, 0>> >>,
       << <<"Glc2NAc", 0, 0>>, <<"Gal", 1, 0>> >>,
       << <<"Glc2NAc", 0, 0>>, <<"Gal", 1, 0>>, <<"Neu5Ac", 2, 3>> >>,
       << <<"Glc2NAc", 0, 0>>, <<"Gal", 1, 0>>, <<"Neu5Ac", 2, 6>> >>,
       << <<"Glc2NAc", 0, 0>>, <<"Gal", 1, 0>>, <<"Neu5Ac", 2, -1>> >>,
       << <<"Glc2NAc", 0, 0>>, <<"Fuc", 1, 0>>, <<"Gal", 1, 0>> >>,
       << <<"Glc2NAc", 0, 0>>, <<"Glc2NAc", 0, 0>> >> >>

\* The children of the middle mannose of the core: the two outer mannoses,
\* and a bisecting GlcNAc before or after them.
Middles ==
    { <<"Man", "Man">>,
      <<"Glc2NAc", "Man", "Man">>,
      <<"Man", "Man", "Glc2NAc">> }

\* The position of a link: as written for a sialic acid, and for the other
\* links 4 when the notation annotates them, else -1.
PositionOf(written, annotated) ==
    IF written # 0 THEN written ELSE IF annotated THEN 4 ELSE -1

RECURSIVE AttachAll(_, _, _, _, _)
AttachAll(tree, entries, parent, base, annotated) ==
    IF entries = <<>> THEN tree
    ELSE AttachAll(
             Attach(tree, Head(entries)[1],
                    IF Head(entries)[2] = 0 THEN parent
                    ELSE base + Head(entries)[2],
                    PositionOf(Head(entries)[3], annotated)),
             Tail(entries), parent, base, annotated)

AttachArm(tree, arm, parent, annotated) ==
    AttachAll(tree, arm, parent, Len(tree), annotated)

\* The two GlcNAc of the stem, a fucose on the first one or not, and the
\* middle mannose, which is the last node.
Stem(core_fuc, annotated) ==
    AttachArm(<<Node("Glc2NAc", 0, -1)>>,
              IF core_fuc
              THEN << <<"Glc2NAc", 0, 0>>, <<"Fuc", 0, 0>>, <<"Man", 1, 0>> >>
              ELSE << <<"Glc2NAc", 0, 0>>, <<"Man", 1, 0>> >>,
              1, annotated)

RECURSIVE UnderMiddle(_, _)
UnderMiddle(middle, annotated) ==
    IF middle = <<>> THEN <<>>
    ELSE << <<Head(middle), 0, 0>> >> \o UnderMiddle(Tail(middle), annotated)

\* The core and what the middle mannose carries.
Trunk(core_fuc, middle, annotated) ==
    Bind(Stem(core_fuc, annotated),
         LAMBDA stem :
             AttachArm(stem, UnderMiddle(middle, annotated), Len(stem),
                       annotated))

\* The ids of the two outer mannoses of a trunk.
OuterMannoses(trunk, core_fuc) ==
    SelectSeq(Children(trunk, IF core_fuc THEN 4 ELSE 3),
              LAMBDA id : trunk[id].mono = "Man")

GlypyGlycan(core_fuc, middle, first, second, annotated) ==
    Bind(Trunk(core_fuc, middle, annotated),
         LAMBDA trunk :
             Bind(OuterMannoses(trunk, core_fuc),
                  LAMBDA outer :
                      AttachArm(AttachArm(trunk, first, outer[1], annotated),
                                second, outer[2], annotated)))

\* Trees that are no N-glycan: a mannose at the root, a stem alone, and a
\* chain of GlcNAc and galactose.
OtherGlycans ==
    { AttachArm(<<Node("Man", 0, -1)>>,
                << <<"Glc2NAc", 0, 0>>, <<"Glc2NAc", 1, 0>>,
                   <<"Man", 2, 0>>, <<"Man", 3, 0>>, <<"Man", 3, 0>> >>,
                1, TRUE),
      Stem(TRUE, FALSE),
      AttachArm(<<Node("Glc2NAc", 0, -1)>>,
                << <<"Gal", 0, 0>>, <<"Glc2NAc", 1, 0>>, <<"Gal", 2, 0>>,
                   <<"Neu5Ac", 3, 3>> >>,
                1, TRUE) }

GlypyGlycans ==
    { GlypyGlycan(core_fuc, middle, Arms[pair[1]], Arms[pair[2]], annotated) :
          core_fuc \in BOOLEAN, middle \in Middles,
          pair \in {p \in (1..Len(Arms)) \X (1..Len(Arms)) : p[1] <= p[2]},
          annotated \in BOOLEAN }
        \cup OtherGlycans

\* The state before the glycan of the run is built.
InitGlycan ==
    /\ module = "glycan"
    /\ expression = <<>>
    /\ formula = None
    /\ abundance_table = None
    /\ last = [call |-> "none", outcome |-> Ok(None)]
    /\ user_file = None
    /\ reader = None
    /\ received = <<>>
    /\ glycan = None
    /\ mp_table = None
    /\ config = None
    /\ data_glycans = None

\* NGlycan(glypy_glycan), of glycan.py: the object when the core is valid
NGlycan_construct(glypy_glycan) ==
    /\ module = "glycan"
    /\ last.call = "none"
    /\ \E call \in {NGlycan(glypy_glycan)} :
           /\ glycan' = IF call.ok THEN call.value ELSE None
           /\ last' = [call |-> "NGlycan", outcome |-> call,
                       glypy_glycan |-> glypy_glycan]
    /\ UNCHANGED <<config, object_vars, file_vars, mp_table, data_glycans>>

\* A call of a method that leaves the glycan as it is.
Query(name, outcome) ==
    /\ module = "glycan"
    /\ glycan # None
    /\ last' = [call |-> name, outcome |-> outcome]
    /\ UNCHANGED <<config, object_vars, file_vars, glycan_vars>>

\* glycan.type
type == Query("type", Ok(Type(glycan)))

\* glycan.is_bisecting()
is_bisecting == Query("is_bisecting", Ok(IsBisecting(glycan)))

\* A count that keeps no type apart.
CountBranches_AnyType(self) ==
    {Ok(n) : n \in 0..Len(self.glypy_glycan)}

\* self.count_branches(): the outcomes of the call.  The number is the one
\* glypy's Glycan.count_branches() gives, which is outside the repository:
\* any count up to the number of nodes.
CountBranches(self) ==
    IF IsComplex(self) THEN {Ok(n) : n \in 0..Len(self.glypy_glycan)}
    ELSE {Raise("BranchError")}

\* glycan.count_branches()
count_branches ==
    /\ glycan # None
    /\ \E outcome \in CountBranches(glycan) : Query("count_branches", outcome)

\* self.count_antenna(), which build_meta_property_table of trait.py calls:
\* the antenna count of the glycan, which is its branch count, defined for
\* the Complex glycans only.
CountAntenna(self) == CountBranches(self)

\* glycan.count_antenna()
count_antenna ==
    /\ glycan # None
    /\ \E outcome \in CountAntenna(glycan) : Query("count_antenna", outcome)

\* The nodes of a monosaccharide, in the order of the traversal.
NodesOf(self, mono) ==
    SelectSeq(BreadthFirstTraversal(self.glypy_glycan, {}),
              LAMBDA id : get_mono_comp(self.glypy_glycan, id) = mono)

\* node.parents()[0][1].id in self._cores
ParentInCores(self, id) ==
    \E j \in 1..Len(self.cores) :
        self.cores[j] = self.glypy_glycan[id].parent

\* A count of the fucoses on a GlcNAc, of the core or not.
CountCoreFuc_OnGlcNAc(self) ==
    Ok(Len(SelectSeq(NodesOf(self, "Fuc"),
                     LAMBDA id :
                         get_mono_comp(self.glypy_glycan,
                                       self.glypy_glycan[id].parent)
                             = "Glc2NAc")))

\* self.count_core_fuc()
CountCoreFuc(self) ==
    Ok(Len(SelectSeq(NodesOf(self, "Fuc"),
                     LAMBDA id : ParentInCores(self, id))))

\* self.count_antennary_fuc(): the fucoses whose parent is no core node
CountAntennaryFuc(self) ==
    Ok(Len(SelectSeq(NodesOf(self, "Fuc"),
                     LAMBDA id : ~ParentInCores(self, id))))

\* self.count_fuc(): the fucoses of the composition
CountFuc(self) == Ok(self.composition["Fuc"])

\* glycan.count_core_fuc()
count_core_fuc == Query("count_core_fuc", CountCoreFuc(glycan))

\* glycan.count_antennary_fuc()
count_antennary_fuc == Query("count_antennary_fuc", CountAntennaryFuc(glycan))

\* glycan.count_fuc()
count_fuc == Query("count_fuc", CountFuc(glycan))

\* The sialic acids of the glycan, and those whose link has a position.
SialicAcids(self) == NodesOf(self, "Neu5Ac")

Annotated(self) ==
    SelectSeq(SialicAcids(self),
              LAMBDA id : self.glypy_glycan[id].position # -1)

\* The sialic acids linked to a position of their parent.
LinkedTo(self, position) ==
    Len(SelectSeq(SialicAcids(self),
                  LAMBDA id : self.glypy_glycan[id].position = position))

\* A count that raises for no glycan.
CountSia_Silent(self, position) == {Ok(LinkedTo(self, position))}

\* self.count_a23_sia() and self.count_a26_sia(): the outcomes of the call.
\* The sialic acids are filtered by the position of their link; a glycan
\* whose sialic acids all lack the position raises SiaLinkageError, and a
\* glycan with no sialic acid gives 0.  For a glycan where only some sialic
\* acids lack the position, the call either raises or counts the others.
CountSia(self, position) ==
    IF SialicAcids(self) = <<>> THEN {Ok(0)}
    ELSE IF Annotated(self) = <<>> THEN {Raise("SiaLinkageError")}
    ELSE IF Annotated(self) = SialicAcids(self)
         THEN {Ok(LinkedTo(self, position))}
    ELSE {Raise("SiaLinkageError"), Ok(LinkedTo(self, position))}

CountA23Sia(self) == CountSia(self, 3)

CountA26Sia(self) == CountSia(self, 6)

\* glycan.count_a23_sia()
count_a23_sia ==
    /\ glycan # None
    /\ \E outcome \in CountA23Sia(glycan) : Query("count_a23_sia", outcome)

\* glycan.count_a26_sia()
count_a26_sia ==
    /\ glycan # None
    /\ \E outcome \in CountA26Sia(glycan) : Query("count_a26_sia", outcome)

NextGlycan ==
    \/ \E glypy_glycan \in GlypyGlycans : NGlycan_construct(glypy_glycan)
    \/ type
    \/ is_bisecting
    \/ count_branches
    \/ count_antenna
    \/ count_core_fuc
    \/ count_antennary_fuc
    \/ count_fuc
    \/ count_a23_sia
    \/ count_a26_sia

SpecGlycan == InitGlycan /\ [][NextGlycan]_vars

\* ---------------------------------------------------------------------------
\* Claims on the glycans
\* ---------------------------------------------------------------------------

\* The last call was glycan.type, on a validated structure with exactly two
\* GlcNAc and no bisection.
TypeOfTwoGlcNAc ==
    /\ glycan # None
    /\ last.call = "type"
    /\ glycan.composition["Glc2NAc"] = 2
    /\ ~IsBisecting(glycan)

\* C16: for every validated structure with exactly two GlcNAc residues and
\* no bisection, the type is HighMannose when the composition is not that of
\* the bare core, and Complex when it is.
C16_TwoGlcNAcUnlessBareCore ==
    TypeOfTwoGlcNAc =>
        last.outcome =
            Ok(IF glycan.composition = N_glycan_core THEN "COMPLEX"
               ELSE "HIGH_MANNOSE")

\* The type of a structure with two GlcNAc, no bisection and a mannose on an
\* outer mannose of the core has been returned.
C16_Witness ==
    /\ TypeOfTwoGlcNAc
    /\ glycan.composition["Man"] = 4
    /\ last.outcome = Ok("HIGH_MANNOSE")

\* C16 as the specification states it: for every validated structure with
\* exactly two GlcNAc residues and no bisection, the type is HighMannose.
C16_TwoGlcNAcIsHighMannose ==
    TypeOfTwoGlcNAc => last.outcome = Ok("HIGH_MANNOSE")

C18_AntennaCountForEveryType ==
    (glycan # None /\ last.call = "count_antenna") =>
        /\ last.outcome.ok
        /\ Type(glycan) = "HIGH_MANNOSE" => last.outcome.value = 0

\* The fucoses of the glycan whose parent is a core node, and those whose
\* parent is none.
FucosesOnCore ==
    {id \in 1..Len(glycan.glypy_glycan) :
        /\ glycan.glypy_glycan[id].mono = "Fuc"
        /\ glycan.glypy_glycan[id].parent \in Range(glycan.cores)}

FucosesOffCore ==
    {id \in 1..Len(glycan.glypy_glycan) :
        /\ glycan.glypy_glycan[id].mono = "Fuc"
        /\ glycan.glypy_glycan[id].parent \notin Range(glycan.cores)}

\* C19: for every validated structure the core-fucose count is the number of
\* fucose nodes whose parent is one of the five core nodes, the
\* antennary-fucose count is the number of fucose nodes whose parent is no
\* core node, and the two counts add up to the total fucose count.
C19_FucoseCounts ==
    glycan # None =>
        /\ Len(glycan.cores) = 5
        /\ last.call = "count_core_fuc" =>
               last.outcome = Ok(Cardinality(FucosesOnCore))
        /\ last.call = "count_antennary_fuc" =>
               last.outcome = Ok(Cardinality(FucosesOffCore))
        /\ last.call = "count_fuc" =>
               last.outcome =
                   Ok(CountCoreFuc(glycan).value
                          + CountAntennaryFuc(glycan).value)

\* The total count of a glycan with one fucose on the core and two on its
\* antennas has been returned.
C19_Witness ==
    /\ glycan # None
    /\ last.call = "count_fuc"
    /\ last.outcome = Ok(3)
    /\ CountCoreFuc(glycan) = Ok(1)
    /\ CountAntennaryFuc(glycan) = Ok(2)

\* The last call was one of the two linkage counts; the position it counts.
LinkageCounted ==
    /\ glycan # None
    /\ last.call \in {"count_a23_sia", "count_a26_sia"}

PositionCounted == IF last.call = "count_a23_sia" THEN 3 ELSE 6

\* The sialic-acid nodes of the glycan, and those annotated with a position.
SiaNodes ==
    {id \in 1..Len(glycan.glypy_glycan) :
        glycan.glypy_glycan[id].mono = "Neu5Ac"}

SiaNodesAt(position) ==
    {id \in SiaNodes : glycan.glypy_glycan[id].position = position}

\* No node of the structure carries linkage information.
NoLinkageInformation ==
    \A id \in 1..Len(glycan.glypy_glycan) :
        glycan.glypy_glycan[id].position = -1

CountTotalSia(self) == Ok(self.composition["Neu5Ac"])
CountMan(self) == Ok(self.composition["Man"])
CountGal(self) == Ok(self.composition["Gal"])

\* The position of an identifier in an index.
PositionIn(index, id) == CHOOSE i \in 1..Len(index) : index[i] = id

\* meta_property_table[name] = [... for g in glycans]: a column of the
\* dtype pandas infers from the list
Column(index, dtype, list) ==
    [dtype |-> dtype,
     values |-> [id \in Range(index) |-> list[PositionIn(index, id)]]]

\* The first outcome of a list that is an exception, or Ok(None): what a
\* list comprehension over the glycans raises.
FirstRaised(outcomes) ==
    IF \A i \in 1..Len(outcomes) : outcomes[i].ok THEN Ok(None)
    ELSE outcomes[Min({i \in 1..Len(outcomes) : ~outcomes[i].ok})]

\* The columns of the table once every count has returned.  antenna, a23 and
\* a26 are what count_antenna, count_a23_sia and count_a26_sia return for
\* each glycan.
Columns(index, glycans, sia_linkage, antenna, a23, a26) ==
    LET n == Len(glycans)
        bools(Op(_)) == Column(index, "bool", [i \in 1..n |-> Op(i)])
        ints(Op(_)) == Column(index, "int64", [i \in 1..n |-> Op(i)])
        basic ==
            (Text("isComplex") :> bools(LAMBDA i : IsComplex(glycans[i])))
         @@ (Text("isHighMannose") :>
                bools(LAMBDA i : IsHighMannose(glycans[i])))
         @@ (Text("isHybrid") :> bools(LAMBDA i : IsHybrid(glycans[i])))
         @@ (Text("isBisecting") :> bools(LAMBDA i : IsBisecting(glycans[i])))
         @@ (Text("is1Antennary") :> bools(LAMBDA i : antenna[i].value = 1))
         @@ (Text("is2Antennary") :> bools(LAMBDA i : antenna[i].value = 2))
         @@ (Text("is3Antennary") :> bools(LAMBDA i : antenna[i].value = 3))
         @@ (Text("is4Antennary") :> bools(LAMBDA i : antenna[i].value = 4))
         @@ (Text("totalAntenna") :> ints(LAMBDA i : antenna[i].value))
         @@ (Text("coreFuc") :>
                ints(LAMBDA i : CountCoreFuc(glycans[i]).value))
         @@ (Text("antennaryFuc") :>
                ints(LAMBDA i : CountAntennaryFuc(glycans[i]).value))
         @@ (Text("hasAntennaryFuc") :>
                bools(LAMBDA i : CountAntennaryFuc(glycans[i]).value > 0))
         @@ (Text("totalFuc") :> ints(LAMBDA i : CountFuc(glycans[i]).value))
         @@ (Text("hasFuc") :>
                bools(LAMBDA i : CountFuc(glycans[i]).value > 0))
         @@ (Text("noFuc") :>
                bools(LAMBDA i : CountFuc(glycans[i]).value = 0))
         @@ (Text("totalSia") :> ints(LAMBDA i : CountTotalSia(glycans[i]).value))
         @@ (Text("hasSia") :>
                bools(LAMBDA i : CountTotalSia(glycans[i]).value > 0))
         @@ (Text("noSia") :>
                bools(LAMBDA i : CountTotalSia(glycans[i]).value = 0))
         @@ (Text("totalMan") :> ints(LAMBDA i : CountMan(glycans[i]).value))
         @@ (Text("totalGal") :> ints(LAMBDA i : CountGal(glycans[i]).value))
        linkage ==
            (Text("a23Sia") :> ints(LAMBDA i : a23[i].value))
         @@ (Text("a26Sia") :> ints(LAMBDA i : a26[i].value))
         @@ (Text("hasa23Sia") :> bools(LAMBDA i : a23[i].value > 0))
         @@ (Text("hasa26Sia") :> bools(LAMBDA i : a26[i].value > 0))
         @@ (Text("noa23Sia") :> bools(LAMBDA i : a23[i].value = 0))
         @@ (Text("noa26Sia") :> bools(LAMBDA i : a26[i].value = 0))
    IN  IF sia_linkage THEN basic @@ linkage ELSE basic

\* build_meta_property_table(glycan_ids, glycans, sia_linkage): the columns
\* are filled one after the other, each over all the glycans, and the first
\* call that raises ends the building.
BuildMetaPropertyTable(glycan_ids, glycans, sia_linkage, antenna, a23, a26) ==
    IF ~FirstRaised(antenna).ok THEN FirstRaised(antenna)
    ELSE IF sia_linkage /\ ~FirstRaised(a23).ok THEN FirstRaised(a23)
    ELSE IF sia_linkage /\ ~FirstRaised(a26).ok THEN FirstRaised(a26)
    ELSE Ok([index |-> glycan_ids,
             columns |-> Columns(glycan_ids, glycans, sia_linkage,
                                 antenna, a23, a26)])

\* The glycans of the modelled tables: a biantennary glycan, one with a
\* fucose on the core and one on an antenna, one with a fucose on an antenna
\* only, one with a sialic acid of each linkage, one whose sialic acids lack
\* the position, a bisected one, the bare core, and a high-mannose glycan.
TableGlycans ==
    { NGlycan(tree).value :
        tree \in
          { GlypyGlycan(FALSE, <<"Man", "Man">>, Arms[5], Arms[5], TRUE),
            GlypyGlycan(TRUE, <<"Man", "Man">>, Arms[6], Arms[9], TRUE),
            GlypyGlycan(FALSE, <<"Man", "Man">>, Arms[4], Arms[9], TRUE),
            GlypyGlycan(FALSE, <<"Man", "Man">>, Arms[6], Arms[7], TRUE),
            GlypyGlycan(FALSE, <<"Man", "Man">>, Arms[8], Arms[8], FALSE),
            GlypyGlycan(TRUE, <<"Glc2NAc", "Man", "Man">>, Arms[4], Arms[4], FALSE),
            GlypyGlycan(FALSE, <<"Man", "Man">>, Arms[1], Arms[1], FALSE),
            GlypyGlycan(FALSE, <<"Man", "Man">>, Arms[2], Arms[3], FALSE) } }

\* The glycans that come second in a list: the bare core and a high-mannose
\* glycan.
SecondGlycans ==
    {g \in TableGlycans : g.composition["Glc2NAc"] = 2}

\* The lists of one or two glycans, and their identifiers.
GlycanLists ==
    {<<g>> : g \in TableGlycans}
        \cup {<<g, h>> : <<g, h>> \in TableGlycans \X SecondGlycans}

GlycanIds(glycans) == SubSeq(<<"G1", "G2">>, 1, Len(glycans))

\* The lists of outcomes, one of the outcomes of each glycan.
OutcomeLists(outcomes) ==
    {list \in [1..Len(outcomes) -> UNION Range(outcomes)] :
        \A i \in 1..Len(outcomes) : list[i] \in outcomes[i]}

\* The comparison terms evaluated on the tables.
TableTerms ==
    { CompareTerm(Text("totalFuc"), <<">">>, IntValue(0)),
      CompareTerm(Text("totalSia"), <<">">>, IntValue(0)),
      CompareTerm(Text("hasFuc"), <<"=", "=">>, BoolValue(TRUE)),
      CompareTerm(Text("isComplex"), <<">">>, IntValue(0)) }

\* The state before the table of the run is built.
InitTable ==
    /\ module = "trait"
    /\ expression = <<>>
    /\ formula = None
    /\ abundance_table = None
    /\ last = [call |-> "none", outcome |-> Ok(None)]
    /\ user_file = None
    /\ reader = None
    /\ received = <<>>
    /\ glycan = None
    /\ mp_table = None
    /\ config = None
    /\ data_glycans = None

\* build_meta_property_table(glycan_ids, glycans, sia_linkage), of trait.py
build_meta_property_table(glycans, sia_linkage) ==
    /\ last.call = "none"
    /\ \E antenna \in
              OutcomeLists([i \in 1..Len(glycans) |->
                               CountAntenna(glycans[i])]),
          a23 \in
              OutcomeLists([i \in 1..Len(glycans) |->
                               CountA23Sia(glycans[i])]),
          a26 \in
              OutcomeLists([i \in 1..Len(glycans) |->
                               CountA26Sia(glycans[i])]) :
           \E call \in {BuildMetaPropertyTable(GlycanIds(glycans), glycans,
                                               sia_linkage, antenna, a23,
                                               a26)} :
               /\ mp_table' = IF call.ok THEN call.value ELSE None
               /\ last' = [call |-> "build_meta_property_table",
                           sia_linkage |-> sia_linkage,
                           outcome |-> IF call.ok THEN Ok(None) ELSE call]
    /\ UNCHANGED <<config, object_vars, file_vars, glycan, data_glycans>>

\* term(meta_property_table), for a CompareTerm of formula.py
compare_term_call(term) ==
    /\ mp_table # None
    /\ last' = [call |-> "CompareTerm.__call__", term |-> term,
                outcome |-> CompareTermCall(term, mp_table)]
    /\ UNCHANGED <<config, object_vars, file_vars, glycan_vars>>

NextTable ==
    \/ \E glycans \in GlycanLists, sia_linkage \in BOOLEAN :
           build_meta_property_table(glycans, sia_linkage)
    \/ \E term \in TableTerms : compare_term_call(term)

SpecTable == InitTable /\ [][NextTable]_vars

\* A column of the table of the run, by glycan.
ColumnOf(name) == mp_table.columns[Text(name)].values

\* The last call evaluated the comparison of a column with 0.
ComparedWithZero(name) ==
    /\ last.call = "CompareTerm.__call__"
    /\ last.term = CompareTerm(Text(name), <<">">>, IntValue(0))

\* C21: in every meta-property table built from validated glycans, for every
\* glycan the term (totalFuc > 0) has the truth value of hasFuc, noFuc is the
\* negation of hasFuc, and likewise (totalSia > 0), hasSia and noSia.
C21_ComparisonsAgreeWithFlags ==
    mp_table # None =>
        \A id \in Range(mp_table.index) :
            /\ ColumnOf("noFuc")[id] = ~ColumnOf("hasFuc")[id]
            /\ ColumnOf("noSia")[id] = ~ColumnOf("hasSia")[id]
            /\ ColumnOf("hasSia")[id] = (ColumnOf("totalSia")[id] > 0)
            /\ ColumnOf("hasFuc")[id] = (ColumnOf("totalFuc")[id] > 0)
            /\ ComparedWithZero("totalFuc") =>
                   /\ last.outcome.ok
                   /\ (last.outcome.value.values[id] = 1)
                          = ColumnOf("hasFuc")[id]
            /\ ComparedWithZero("totalSia") =>
                   /\ last.outcome.ok
                   /\ (last.outcome.value.values[id] = 1)
                          = ColumnOf("hasSia")[id]

\* (totalFuc > 0) has been evaluated on a table of a glycan with fucoses and
\* a glycan with none.
C21_Witness ==
    /\ mp_table # None
    /\ ComparedWithZero("totalFuc")
    /\ Len(mp_table.index) = 2
    /\ ColumnOf("totalFuc")["G1"] = 2
    /\ ColumnOf("totalFuc")["G2"] = 0
    /\ last.outcome.value.values["G1"] = 1
    /\ last.outcome.value.values["G2"] = 0

\* ---------------------------------------------------------------------------
\* Preprocessing: src/src/glytrait/preprocessing.py (the steps on the input
\* data) and src/glytrait/preprocessing.py (the functions on a table)
\* ---------------------------------------------------------------------------

\* A DataFrame of abundances: samples as index, glycans as columns, a float
\* or NaN in each cell.
DataFrame(index, columns, values) ==
    [index |-> index, columns |-> columns,
     values |-> [s \in Range(index) |-> [g \in Range(columns) |->
                    values[s][g]]]]

\* a <= b for two floats that are no NaN
LessEq(a, b) == a.n * b.d <= b.n * a.d

\* The cells of a column that hold a value, as a list in the order of the
\* index.
RECURSIVE PresentFrom(_, _, _)
PresentFrom(df, column, i) ==
    IF i > Len(df.index) THEN <<>>
    ELSE (IF df.values[df.index[i]][column].nan THEN <<>>
          ELSE <<df.values[df.index[i]][column]>>)
             \o PresentFrom(df, column, i + 1)

Present(df, column) == PresentFrom(df, column, 1)

\* abundance_df.isna().mean() <= max_na, for one column
IsNaMeanAtMost(df, column, max_na) ==
    LessEq(Ratio(Len(df.index) - Len(Present(df, column)), Len(df.index)),
           max_na)

\* The r-th smallest of a list of floats.
Smallest(list, r) ==
    CHOOSE v \in Range(list) :
        /\ Cardinality({j \in 1..Len(list) :
                           LessEq(list[j], v) /\ list[j] # v}) < r
        /\ r <= Cardinality({j \in 1..Len(list) : LessEq(list[j], v)})

RECURSIVE SumOf(_)
SumOf(list) ==
    IF list = <<>> THEN Ratio(0, 1)
    ELSE Bind(SumOf(Tail(list)),
              LAMBDA rest :
                  Ratio(Head(list).n * rest.d + rest.n * Head(list).d,
                        Head(list).d * rest.d))

\* a / k for a float and a positive integer
DividedBy(a, k) == Ratio(a.n, a.d * k)

\* abundance_df.min(), .mean(), .median() for one column: the cells that are
\* NaN are skipped, and a column of NaN only gives NaN
ColumnMin(df, column) ==
    Bind(Present(df, column),
         LAMBDA list : IF list = <<>> THEN NaN ELSE Smallest(list, 1))

ColumnMean(df, column) ==
    Bind(Present(df, column),
         LAMBDA list :
             IF list = <<>> THEN NaN ELSE DividedBy(SumOf(list), Len(list)))

ColumnMedian(df, column) ==
    Bind(Present(df, column),
         LAMBDA list :
             IF list = <<>> THEN NaN
             ELSE DividedBy(
                      SumOf(<<Smallest(list, (Len(list) + 1) \div 2),
                              Smallest(list, Len(list) \div 2 + 1)>>),
                      2))

\* abundance_df.fillna(value): every NaN cell takes the value of its column,
\* when that value is no NaN
FillNa(df, value) ==
    [df EXCEPT !.values =
        [s \in Range(df.index) |-> [g \in Range(df.columns) |->
            IF df.values[s][g].nan THEN value[g] ELSE df.values[s][g]]]]

\* _filter_glycans(abundance_df, max_na): the columns to keep, in order
FilterGlycansList(df, max_na) ==
    SelectSeq(df.columns, LAMBDA g : IsNaMeanAtMost(df, g, max_na))

\* abundance_df.filter(items=glycans_to_keep), which is
\* abundance_df.loc[:, mask] of filter_glycans
FilterItems(df, items) ==
    [index |-> df.index, columns |-> items,
     values |-> [s \in Range(df.index) |-> [g \in Range(items) |->
                    df.values[s][g]]]]

\* filter_glycans(abundance_df, max_na), of src/glytrait/preprocessing.py
FilterGlycans(df, max_na) == FilterItems(df, FilterGlycansList(df, max_na))

Methods == {"zero", "min", "lod", "mean", "median"}

\* _impute(abundance_df, method) and impute(abundance_df, method)
Impute(df, method) ==
    IF method = "zero"
    THEN Ok(FillNa(df, [g \in Range(df.columns) |-> Ratio(0, 1)]))
    ELSE IF method = "min"
    THEN Ok(FillNa(df, [g \in Range(df.columns) |-> ColumnMin(df, g)]))
    ELSE IF method = "lod"
    THEN Ok(FillNa(df, [g \in Range(df.columns) |->
                Bind(ColumnMin(df, g),
                     LAMBDA min : IF min.nan THEN NaN
                                  ELSE DividedBy(min, 5))]))
    ELSE IF method = "mean"
    THEN Ok(FillNa(df, [g \in Range(df.columns) |-> ColumnMean(df, g)]))
    ELSE IF method = "median"
    THEN Ok(FillNa(df, [g \in Range(df.columns) |-> ColumnMedian(df, g)]))
    ELSE Raise("ValueError")

\* FilterGlycans(max_na)(data) with data.glycans left as it was.
FilterGlycansCall_TableOnly(table, glycans, max_na) ==
    [abundance_table |-> FilterGlycans(table, max_na), glycans |-> glycans]

\* FilterGlycans(max_na)(data), of src/src/glytrait/preprocessing.py: the new
\* data.abundance_table and data.glycans
FilterGlycansCall(table, glycans, max_na) ==
    Bind(FilterGlycansList(table, max_na),
         LAMBDA glycans_to_keep :
             [abundance_table |-> FilterItems(table, glycans_to_keep),
              glycans |-> [g \in DOMAIN glycans \cap Range(glycans_to_keep)
                              |-> glycans[g]]])

\* The tables of the modelled runs: three samples, two glycans, and in each
\* cell NaN or one of two abundances.
RawTables ==
    {DataFrame(<<"S1", "S2", "S3">>, <<"G1", "G2">>, values) :
        values \in [{"S1", "S2", "S3"} ->
                       [{"G1", "G2"} -> {NaN, Ratio(2, 1), Ratio(10, 1)}]]}

\* data.glycans: a glycan for each identifier
GlycansOf(ids) == [g \in ids |-> "NGlycan"]

MaxNas == {Ratio(0, 1), Ratio(1, 3), Ratio(1, 2), Ratio(1, 1)}

\* The state before the preprocessing: a table alone, or the input data with
\* a glycan for every column of its table and, in some runs, one more.
InitPreprocess ==
    /\ module = "preprocessing"
    /\ expression = <<>>
    /\ formula = None
    /\ abundance_table \in RawTables
    /\ last = [call |-> "none", outcome |-> Ok(None)]
    /\ user_file = None
    /\ reader = None
    /\ received = <<>>
    /\ glycan = None
    /\ mp_table = None
    /\ config = None
    /\ data_glycans \in
           {None, GlycansOf({"G1", "G2"}), GlycansOf({"G1", "G2", "G3"})}

\* FilterGlycans(max_na)(data)
FilterGlycans_call(max_na) ==
    /\ data_glycans # None
    /\ last.call = "none"
    /\ \E data \in {FilterGlycansCall(abundance_table, data_glycans, max_na)} :
           /\ abundance_table' = data.abundance_table
           /\ data_glycans' = data.glycans
    /\ last' = [call |-> "FilterGlycans", max_na |-> max_na,
                before |-> [columns |-> abundance_table.columns,
                            glycans |-> DOMAIN data_glycans,
                            table |-> abundance_table],
                outcome |-> Ok(None)]
    /\ UNCHANGED <<config, module, expression, formula, file_vars, glycan, mp_table>>

\* abundance_df = filter_glycans(abundance_df, max_na)
filter_glycans(max_na) ==
    /\ data_glycans = None
    /\ last.call = "none"
    /\ abundance_table' = FilterGlycans(abundance_table, max_na)
    /\ last' = [call |-> "filter_glycans", max_na |-> max_na,
                outcome |-> Ok(None)]
    /\ UNCHANGED <<config, module, expression, formula, file_vars, glycan_vars>>

\* Impute(method)(data), and abundance_df = impute(abundance_df, method)
impute(method) ==
    /\ last.call \in {"FilterGlycans", "filter_glycans"}
    /\ \E call \in {Impute(abundance_table, method)} :
           /\ abundance_table' = IF call.ok THEN call.value ELSE abundance_table
           /\ last' = [call |-> IF data_glycans = None THEN "impute"
                                ELSE "Impute",
                       method |-> method, max_na |-> last.max_na,
                       outcome |-> IF call.ok THEN Ok(None) ELSE call]
    /\ UNCHANGED <<config, module, expression, formula, file_vars, glycan_vars>>

NextPreprocess ==
    \/ \E max_na \in MaxNas : FilterGlycans_call(max_na)
    \/ \E max_na \in MaxNas : filter_glycans(max_na)
    \/ \E method \in Methods \cup {"1/5min"} : impute(method)

SpecPreprocess == InitPreprocess /\ [][NextPreprocess]_vars

\* The table of the run holds a missing value.
HasMissingValue ==
    \E s \in Range(abundance_table.index),
       g \in Range(abundance_table.columns) :
        abundance_table.values[s][g].nan

\* C22: after the imputation has run with a supported method on a table that
\* passed the glycan filtering with a max_na in [0, 1], the table holds no
\* missing value.
C22_NoMissingValueAfterImputation ==
    (last.call \in {"impute", "Impute"} /\ last.outcome.ok) =>
        ~HasMissingValue

\* The glycans whose proportion of missing values was at most max_na.
GlycansWithin(table, max_na) ==
    {g \in Range(table.columns) :
        Cardinality({s \in Range(table.index) : table.values[s][g].nan})
                * max_na.d
            <= max_na.n * Cardinality(Range(table.index))}

\* C29: if the keys of data.glycans are the columns of the abundance table
\* before FilterGlycans runs, then afterwards both are exactly the glycans
\* whose proportion of missing values is at most max_na.
C29_FilterKeepsAligned ==
    (last.call = "FilterGlycans"
        /\ last.before.glycans = Range(last.before.columns)) =>
        /\ DOMAIN data_glycans = GlycansWithin(last.before.table, last.max_na)
        /\ Range(abundance_table.columns) = DOMAIN data_glycans
        /\ \A s \in Range(abundance_table.index), g \in DOMAIN data_glycans :
               abundance_table.values[s][g] = last.before.table.values[s][g]

\* FilterGlycans has dropped one of the two glycans of aligned input data.
C29_Witness ==
    /\ last.call = "FilterGlycans"
    /\ last.before.glycans = {"G1", "G2"}
    /\ DOMAIN data_glycans = {"G2"}
    /\ abundance_table.columns = <<"G2">>

\* ---------------------------------------------------------------------------
\* Reading structures: src/glytrait/io.py
\* ---------------------------------------------------------------------------

\* A structure string: a notation glycoct_loads cannot parse, or one it
\* parses into a tree.
Malformed(text) == [malformed |-> TRUE, text |-> text]

Parses(tree) == [malformed |-> FALSE, tree |-> tree]

\* NGlycan.from_glycoct(glycoct), which is from_string(glycoct, "glycoct"):
\* a GlycoCTError becomes StructureParseError, the ValueError of the core
\* check passes through.
FromGlycoct(glycoct) ==
    IF glycoct.malformed THEN Raise("StructureParseError")
    ELSE NGlycan(glycoct.tree)

\* An exception raised with a message that starts with an identifier.
RaiseFor(error, id) == [ok |-> FALSE, error |-> error, id |-> id]

\* The body of the loops of read_input and read_structure for one glycan:
\* the glycan, or what the handlers of the try statement raise.  The except
\* clause names the StructureParseError of glytrait.exception, which is not
\* among the files, while from_string raises the one of glycan.py: the clause
\* catches it when the two are one class (same_class).
BuildOne(glycan_id, structure, same_class) ==
    Bind(FromGlycoct(structure),
         LAMBDA built :
             IF built.ok THEN built
             ELSE IF built.error = "StructureParseError" /\ same_class
             THEN RaiseFor("StructureParseError", glycan_id)
             ELSE built)

\* The loop over the glycans: the list of the glycans built, or the first
\* exception.
RECURSIVE BuildFrom(_, _, _, _, _)
BuildFrom(ids, structures, same_class, i, glycans) ==
    IF i > Len(ids) THEN Ok(glycans)
    ELSE IF ids[i] \notin DOMAIN structures
    THEN RaiseFor("InputError", ids[i])
    ELSE Bind(BuildOne(ids[i], structures[ids[i]], same_class),
              LAMBDA built :
                  IF ~built.ok THEN built
                  ELSE BuildFrom(ids, structures, same_class, i + 1,
                                 Append(glycans, built.value)))

\* read_structure(file, compositions).  The file is its columns after the
\* index and the structure of each row; a file with one row and one column
\* is squeezed to a single string, which no composition can index.
ReadStructure(file, compositions, same_class) ==
    IF file.columns # 1 THEN Raise("InputError")
    ELSE IF compositions = <<>> THEN Ok(<<>>)
    ELSE IF Cardinality(DOMAIN file.structures) = 1 THEN Raise("TypeError")
    ELSE BuildFrom(compositions, file.structures, same_class, 1, <<>>)

\* An abundance cell that is no number.
NotNumeric == [nan |-> FALSE, text |-> TRUE]

\* Whether a list holds a value twice: Series.duplicated().sum() > 0
Duplicated(list) ==
    \E i, j \in 1..Len(list) : i < j /\ list[i] = list[j]

\* _check_input(df, has_structure): whether the check passes.  The file is
\* its header and its rows, each with a composition, a structure when there
\* is such a column, and the abundance of one sample.
CheckInput(file, has_structure) ==
    /\ file.header[1] = "Composition"
    /\ ~Duplicated([i \in 1..Len(file.rows) |-> file.rows[i].Composition])
    /\ has_structure =>
           /\ file.header[2] = "Structure"
           /\ ~Duplicated([i \in 1..Len(file.rows) |->
                              file.rows[i].Structure])
    /\ \A i \in 1..Len(file.rows) : "text" \notin DOMAIN file.rows[i].S1
    /\ \A i \in 1..Len(file.rows) : ~file.rows[i].S1.nan

\* read_input(file)
ReadInput(file, same_class) ==
    LET has_structure == "Structure" \in Range(file.header)
        index == [i \in 1..Len(file.rows) |-> file.rows[i].Composition]
        structures ==
            [id \in Range(index) |->
                file.rows[PositionIn(index, id)].Structure]
        transposed ==
            DataFrame(<<"S1">>, index,
                      [s \in {"S1"} |-> [id \in Range(index) |->
                          file.rows[PositionIn(index, id)].S1]])
    IN  IF ~CheckInput(file, has_structure) THEN Raise("InputError")
        ELSE IF ~has_structure
        THEN Ok([glycans |-> None, abundance_table |-> transposed])
        ELSE Bind(BuildFrom(index, structures, same_class, 1, <<>>),
                  LAMBDA built :
                      IF ~built.ok THEN built
                      ELSE Ok([glycans |-> built.value,
                               abundance_table |-> transposed]))

\* The structure strings of the modelled files: two that do not parse, a
\* biantennary glycan, a high-mannose glycan, and two trees without a valid
\* core.
Structures ==
    {Malformed("x"), Malformed("y")}
        \cup {Parses(tree) :
                 tree \in {GlypyGlycan(FALSE, <<"Man", "Man">>, Arms[5],
                                       Arms[5], TRUE),
                           GlypyGlycan(FALSE, <<"Man", "Man">>, Arms[2],
                                       Arms[3], FALSE)}
                              \cup OtherGlycans}

\* The structure files: one or two rows.
StructureFiles ==
    {[columns |-> columns, structures |-> structures] :
        columns \in {1, 2},
        structures \in [{"G1"} -> Structures] \cup [{"G1", "G2"} -> Structures]}

CompositionLists ==
    {<<>>, <<"G1">>, <<"G1", "G2">>, <<"G2", "G1">>, <<"G1", "G3">>}

\* The input files: a header and one or two rows.
Rows ==
    [Composition : {"G1", "G2"}, Structure : Structures,
     S1 : {Ratio(10, 1), NaN, NotNumeric}]

InputFiles ==
    {[header |-> header, rows |-> rows] :
        header \in {<<"Composition", "Structure", "S1">>,
                    <<"Composition", "S1">>,
                    <<"Structure", "Composition", "S1">>,
                    <<"Composition", "S1", "Structure">>},
        rows \in {<<row>> : row \in Rows}
                     \cup {<<first, second>> :
                              <<first, second>> \in Rows \X Rows}}

\* The state before a file is read.
InitIo ==
    /\ module = "io"
    /\ expression = <<>>
    /\ formula = None
    /\ abundance_table = None
    /\ last = [call |-> "none", outcome |-> Ok(None)]
    /\ user_file = None
    /\ reader = None
    /\ received = <<>>
    /\ glycan = None
    /\ mp_table = None
    /\ config = None
    /\ data_glycans = None

\* read_structure(file, compositions), of io.py
read_structure(file, compositions, same_class) ==
    /\ last.call = "none"
    /\ last' = [call |-> "read_structure",
                structures |->
                    [i \in 1..Len(compositions) |->
                        IF compositions[i] \in DOMAIN file.structures
                        THEN file.structures[compositions[i]] ELSE None],
                ids |-> compositions,
                checked |-> file.columns = 1 /\ compositions # <<>>
                              /\ Cardinality(DOMAIN file.structures) > 1,
                same_class |-> same_class,
                outcome |-> ReadStructure(file, compositions, same_class)]
    /\ UNCHANGED <<config, object_vars, file_vars, glycan_vars>>

\* read_input(file), of io.py
read_input(file, same_class) ==
    /\ last.call = "none"
    /\ last' = [call |-> "read_input",
                structures |->
                    [i \in 1..Len(file.rows) |-> file.rows[i].Structure],
                ids |-> [i \in 1..Len(file.rows) |->
                            file.rows[i].Composition],
                checked |-> CheckInput(file,
                                       "Structure" \in Range(file.header))
                              /\ "Structure" \in Range(file.header),
                same_class |-> same_class,
                outcome |-> ReadInput(file, same_class)]
    /\ UNCHANGED <<config, object_vars, file_vars, glycan_vars>>

NextIo ==
    \/ \E file \in StructureFiles, compositions \in CompositionLists,
          same_class \in BOOLEAN :
           read_structure(file, compositions, same_class)
    \/ \E file \in InputFiles, same_class \in BOOLEAN :
           read_input(file, same_class)

SpecIo == InitIo /\ [][NextIo]_vars

\* The structure cannot be built: it does not parse, or it parses and has
\* no valid core.
CannotBeBuilt(structure) ==
    structure # None /\ ~FromGlycoct(structure).ok

\* The glycans of the batch of the last call whose structure cannot be
\* built.
Offending ==
    {i \in 1..Len(last.structures) : CannotBeBuilt(last.structures[i])}

\* C23: when a batch of structures is read and gets as far as building them,
\* the first glycan whose structure cannot be built aborts the batch: no
\* glycan list is returned, and the error raised carries the identifier of
\* that glycan.
C23_FirstFailureCarriesIdentifier ==
    (last.call \in {"read_structure", "read_input"} /\ last.checked
        /\ Offending # {}
        /\ \A i \in 1..Min(Offending) : last.structures[i] # None) =>
        /\ ~last.outcome.ok
        /\ "id" \in DOMAIN last.outcome
        /\ last.outcome.id = last.ids[Min(Offending)]

\* The tree of the glycan of the run, its nodes of a type, the links of a
\* node, and the order of the fucose-skipping traversal.
NodesOfType(mono) ==
    {id \in 1..Len(glycan.glypy_glycan) : glycan.glypy_glycan[id].mono = mono}

LinksOf(id) ==
    Cardinality({j \in 1..Len(glycan.glypy_glycan) :
                    glycan.glypy_glycan[j].parent = id})
        + (IF glycan.glypy_glycan[id].parent = 0 THEN 0 ELSE 1)

SkippingFucose == BreadthFirstTraversal(glycan.glypy_glycan, {"Fuc"})

\* The decision list of the classification, taken in order.
DecisionList ==
    IF /\ Cardinality(NodesOfType("Man")) = 3
       /\ Cardinality(NodesOfType("Glc2NAc")) = 2
       /\ Len(glycan.glypy_glycan) = 5
    THEN "COMPLEX"
    ELSE IF LinksOf(SkippingFucose[3]) = 4 THEN "COMPLEX"
    ELSE IF Cardinality(NodesOfType("Glc2NAc")) = 2 THEN "HIGH_MANNOSE"
    ELSE IF LinksOf(SkippingFucose[4]) = 1 \/ LinksOf(SkippingFucose[5]) = 1
    THEN "COMPLEX"
    ELSE IF Cardinality(NodesOfType("Glc2NAc")) = 3 THEN "HYBRID"
    ELSE "COMPLEX"

\* C24: for every structure that passed the core validation the traversal
\* that skips the fucoses has the five nodes the type looks up, the type is
\* the result of the decision list taken in order, and exactly one of
\* is_complex, is_high_mannose and is_hybrid is true.
C24_TypeIsTheDecisionList ==
    glycan # None =>
        /\ Len(SkippingFucose) >= 5
        /\ last.call = "type" => last.outcome = Ok(DecisionList)
        /\ Cardinality({flag \in {"COMPLEX", "HIGH_MANNOSE", "HYBRID"} :
               CASE flag = "COMPLEX" -> IsComplex(glycan)
                 [] flag = "HIGH_MANNOSE" -> IsHighMannose(glycan)
                 [] flag = "HYBRID" -> IsHybrid(glycan)}) = 1

\* The type of a glycan with three GlcNAc, no bisection and an outer mannose
\* that ends its chain has been returned: Complex, by the fourth rule.
C24_Witness ==
    /\ glycan # None
    /\ last.call = "type"
    /\ Cardinality(NodesOfType("Glc2NAc")) = 3
    /\ LinksOf(SkippingFucose[3]) = 3
    /\ LinksOf(SkippingFucose[4]) = 1
    /\ last.outcome = Ok("COMPLEX")

\* The first two nodes that the fucose-skipping traversal of a tree visits
\* are both GlcNAc.
StartsWithTwoGlcNAc(tree) ==
    Bind(BreadthFirstTraversal(tree, {"Fuc"}),
         LAMBDA nodes :
             /\ Len(nodes) >= 2
             /\ tree[nodes[1]].mono = "Glc2NAc"
             /\ tree[nodes[2]].mono = "Glc2NAc")

\* C25: the construction of a structure fails whenever one of the first two
\* nodes of the fucose-skipping breadth-first traversal is not a GlcNAc, even
\* if two GlcNAc and three Man occur later in the traversal.
C25_FirstTwoNodesMustBeGlcNAc ==
    (last.call = "NGlycan" /\ ~StartsWithTwoGlcNAc(last.glypy_glycan))
        => ~last.outcome.ok


\* The types of the nodes a list of node ids names, as a bag.
TypesOf(tree, ids) ==
    [mono \in {"Glc2NAc", "Man", "Gal", "Neu5Ac", "Fuc"} |->
        Cardinality({i \in 1..Len(ids) : tree[ids[i]].mono = mono})]

\* The candidates for the core that the loop of _init_cores collects.
CoreCandidates(tree) ==
    CollectCores(tree, BreadthFirstTraversal(tree, {"Fuc"}), <<>>)

\* Five candidates of the types GlcNAc, GlcNAc, Man, Man, Man.
IsValidCore(tree, ids) ==
    /\ Len(ids) = 5
    /\ TypesOf(tree, ids) = [Glc2NAc |-> 2, Man |-> 3, Gal |-> 0,
                             Neu5Ac |-> 0, Fuc |-> 0]

\* C26: a constructed NGlycan holds five distinct core node ids of the types
\* GlcNAc, GlcNAc, Man, Man, Man; a tree that gives fewer than five core
\* candidates or other types fails with ValueError, which is not a
\* StructureParseError, and no NGlycan object is produced.
C26_FiveCoresOrValueError ==
    last.call = "NGlycan" =>
        IF last.outcome.ok
        THEN /\ glycan = last.outcome.value
             /\ Cardinality({glycan.cores[i] : i \in 1..Len(glycan.cores)}) = 5
             /\ IsValidCore(glycan.glypy_glycan, glycan.cores)
        ELSE /\ ~IsValidCore(last.glypy_glycan,
                             CoreCandidates(last.glypy_glycan))
             /\ last.outcome.error = "ValueError"
             /\ last.outcome.error # "StructureParseError"
             /\ glycan = None

\* A tree with fewer than five core candidates has been refused.
C26_Witness ==
    /\ last.call = "NGlycan"
    /\ Len(CoreCandidates(last.glypy_glycan)) < 5
    /\ last.outcome = Raise("ValueError")
    /\ glycan = None

\* ------------------------------------------------------------------------
\* The linkage flag of a constructed formula
\* ------------------------------------------------------------------------

\* The meta-properties that depend on the linkage of the sialic acids: the
\* names _is_sia_linkage_term looks for, and the list of trait.py.
LinkageProperties ==
    IF module = "formula" THEN {Text("nE"), Text("nS")}
    ELSE SiaLinkageMetaProperties

\* Whether a term of the object is on one of these properties.
ReferencesLinkage(term) ==
    IF module = "formula"
    THEN term.kind # "ConstantTerm" /\ term.meta_property \in LinkageProperties
    ELSE term \in LinkageProperties

\* C27: the linkage flag of a constructed TraitFormula is true exactly when
\* one of its numerator or denominator terms is on a linkage-dependent
\* meta-property; a formula with no such term has the flag false, whatever
\* its property names or comparison literals contain.
C27_FlagIffLinkageProperty ==
    Constructed =>
        (formula.sia_linkage
            <=> \E term \in Range(NumeratorTerms \o DenominatorTerms) :
                    ReferencesLinkage(term))

\* ------------------------------------------------------------------------
\* The cached weight vectors of an initialized formula
\* ------------------------------------------------------------------------

\* Whether a table gives the two weight vectors the object holds.
BothComputedFrom(table) ==
    IF module = "formula"
    THEN /\ InitializeArray(table, formula.numerators)
                = Ok(formula.numerator_array)
         /\ InitializeArray(table, formula.denominators)
                = Ok(formula.denominator_array)
    ELSE /\ Trait_InitializeArray(table, formula.numerator_properties)
                = Ok(formula.numerator)
         /\ Trait_InitializeArray(table, formula.denominator_properties)
                = Ok(formula.denominator)

\* C28: whenever the initialized flag of a TraitFormula is true, its two
\* cached weight vectors were computed from one and the same meta-property
\* table; an initialize call that fails leaves the flag and both vectors as
\* the last successful call left them.
C28_VectorsFromOneTable ==
    formula.initialized => \E table \in MetaPropertyTables : BothComputedFrom(table)

\* ------------------------------------------------------------------------
\* Config (src/glytrait/config.py)
\* ------------------------------------------------------------------------

\* Python values of a configuration: a str, a bool, a float, or None.
PyStr(s) == [t |-> "str", s |-> s]

PyBool(b) == [t |-> "bool", b |-> b]

PyFloat(n, d) == [t |-> "float", x |-> Ratio(n, d)]

\* isinstance(value, str), isinstance(value, bool), and
\* isinstance(value, (float, int)), which a bool satisfies too
IsStr(value) == value # None /\ value.t = "str"

IsBool(value) == value # None /\ value.t = "bool"

IsFloatOrInt(value) == value # None /\ value.t \in {"float", "bool"}

\* The number a float or a bool compares as.
NumberOf(value) ==
    IF value.t = "bool" THEN (IF value.b THEN Ratio(1, 1) ELSE Ratio(0, 1))
    ELSE value.x

\* The paths of the file system of the run: what Path(file).exists(),
\* Path(file).is_file() and Path(file).suffix give for each.
Paths ==
    [path \in {"in.csv", "gone.csv", "in.txt", "out.xlsx", "out.csv",
               "s.csv", "f.txt", "dir"} |->
        [exists |-> path \in {"in.csv", "in.txt", "s.csv", "f.txt", "dir"},
         is_file |-> path \in {"in.csv", "in.txt", "s.csv", "f.txt"},
         suffix |-> CASE path \in {"in.csv", "gone.csv", "out.csv", "s.csv"}
                             -> ".csv"
                      [] path \in {"in.txt", "f.txt"} -> ".txt"
                      [] path = "out.xlsx" -> ".xlsx"
                      [] OTHER -> ""]]

default_config ==
    [input_file |-> None,
     output_file |-> None,
     mode |-> None,
     filter_glycan_max_na |-> PyFloat(1, 1),
     impute_method |-> PyStr("zero"),
     corr_threshold |-> PyFloat(1, 1),
     corr_method |-> PyStr("pearson"),
     sia_linkage |-> PyBool(FALSE),
     formula_file |-> None,
     post_filtering |-> PyBool(TRUE),
     structure_file |-> None,
     database |-> None]

must_have == {"input_file", "output_file", "mode"}

\* valid_file(file, name, suffix, check_exist=..., none_ok=True): whether it
\* returns without raising ConfigError
valid_file(file, suffix, check_exist) ==
    \/ file = None
    \/ /\ IsStr(file)
       /\ check_exist => (Paths[file.s].exists /\ Paths[file.s].is_file)
       /\ Paths[file.s].suffix = suffix

\* Whether a number lies between 0 and 1.
BetweenZeroAndOne(value) ==
    /\ IsFloatOrInt(value)
    /\ LessEq(Ratio(0, 1), NumberOf(value))
    /\ LessEq(NumberOf(value), Ratio(1, 1))

\* Whether a value is one of the given strings.
OneOf(value, strings) == IsStr(value) /\ value.s \in strings

\* The registered validators, in the order of their registration, each with
\* whether it returns for a configuration without raising ConfigError.
validators(config_dict) ==
    << [name |-> "valid_input_file",
        passes |-> valid_file(config_dict.input_file, ".csv", TRUE)],
       [name |-> "valid_output_file",
        passes |-> valid_file(config_dict.output_file, ".xlsx", FALSE)],
       [name |-> "valid_mode",
        passes |-> OneOf(config_dict.mode, {"structure", "composition"})],
       [name |-> "valid_filter_glycan_max_na",
        passes |-> BetweenZeroAndOne(config_dict.filter_glycan_max_na)],
       [name |-> "valid_impute_method",
        passes |-> OneOf(config_dict.impute_method,
                         {"min", "mean", "median", "zero", "lod"})],
       [name |-> "valid_corr_threshold",
        passes |-> BetweenZeroAndOne(config_dict.corr_threshold)],
       [name |-> "valid_corr_method",
        passes |-> OneOf(config_dict.corr_method, {"pearson", "spearman"})],
       [name |-> "valid_sia_linkage",
        passes |-> IsBool(config_dict.sia_linkage)],
       [name |-> "valid_formula_file",
        passes |-> valid_file(config_dict.formula_file, ".txt", TRUE)],
       [name |-> "valid_post_filtering",
        passes |-> IsBool(config_dict.post_filtering)],
       [name |-> "valid_structure_file",
        passes |->
            \/ config_dict.structure_file = None
            \/ /\ IsStr(config_dict.structure_file)
               /\ Paths[config_dict.structure_file.s].exists
               /\ Paths[config_dict.structure_file.s].is_file
                      => Paths[config_dict.structure_file.s].suffix = ".csv"],
       [name |-> "valid_database",
        passes |-> \/ config_dict.database = None
                   \/ OneOf(config_dict.database, {"serum", "IgG"})],
       [name |-> "valid_database_and_structure_file",
        passes |-> ~(/\ config_dict.database # None
                     /\ config_dict.structure_file # None)],
       [name |-> "valid_composition_mode",
        passes |-> \/ config_dict.mode = PyStr("structure")
                   \/ /\ config_dict.database = None
                      /\ config_dict.structure_file = None] >>

\* self.check_validity(config_dict): the validators run in order and the
\* first to fail raises ConfigError.
CheckValidity(config_dict) ==
    IF Bind(validators(config_dict), LAMBDA checked :
               \A i \in DOMAIN checked : checked[i].passes)
    THEN Ok(None) ELSE Raise("ConfigError")

\* An update that stores each value as it goes and validates at the end.
Update_InPlace(self, new) ==
    IF \E key \in DOMAIN new : key \notin DOMAIN self
    THEN [self |-> self, outcome |-> Raise("KeyError")]
    ELSE Bind([key \in DOMAIN self |->
                  IF key \in DOMAIN new THEN new[key] ELSE self[key]],
              LAMBDA new_config :
                  [self |-> new_config, outcome |-> CheckValidity(new_config)])

\* Config.update(new): the stored dictionary after the call, and what the
\* call returned or raised
Update(self, new) ==
    IF \E key \in DOMAIN new : key \notin DOMAIN self
    THEN [self |-> self, outcome |-> Raise("KeyError")]
    ELSE Bind([key \in DOMAIN self |->
                  IF key \in DOMAIN new THEN new[key] ELSE self[key]],
              LAMBDA new_config :
                  IF CheckValidity(new_config).ok
                  THEN [self |-> new_config, outcome |-> Ok(None)]
                  ELSE [self |-> self, outcome |-> Raise("ConfigError")])

\* Config.set(key, value)
Set(self, key, value) == Update(self, (key :> value))

\* Config(user_config): the stored dictionary, when the constructor returned
Config(user_config) ==
    IF ~(must_have \subseteq DOMAIN user_config) THEN Raise("ConfigError")
    ELSE Bind(Update(default_config, user_config), LAMBDA call :
             IF call.outcome.ok THEN Ok(call.self) ELSE call.outcome)

\* The keys and values the calls of the run set.
KeyValues ==
    ({"mode"} \X {PyStr("structure"), PyStr("composition"), PyStr("other")})
        \cup ({"database"} \X {None, PyStr("serum"), PyStr("x")})
        \cup ({"structure_file"} \X {None, PyStr("s.csv"), PyStr("gone.csv")})
        \cup ({"sia_linkage"} \X {PyBool(TRUE), PyStr("yes")})
        \cup ({"filter_glycan_max_na"} \X {PyFloat(1, 2), PyFloat(2, 1)})
        \cup ({"_has_struc_col"} \X {PyBool(TRUE)})

\* The mappings update is called with: of no key, of one and of two.
Mappings ==
    {<<>>} \cup {(kv[1] :> kv[2]) : kv \in KeyValues}
        \cup {(p[1][1] :> p[1][2]) @@ (p[2][1] :> p[2][2]) :
                 p \in {q \in KeyValues \X KeyValues : q[1][1] # q[2][1]}}

\* The mappings a Config is constructed from: the three keys it must have,
\* with one more key or without, or with a key missing.
UserConfigs ==
    {("input_file" :> PyStr(input)) @@ ("output_file" :> PyStr(output))
            @@ ("mode" :> PyStr(mode)) @@ more :
         input \in {"in.csv", "gone.csv"}, output \in {"out.xlsx", "out.csv"},
         mode \in {"structure", "composition"},
         more \in {<<>>, ("database" :> PyStr("serum")),
                   ("structure_file" :> PyStr("s.csv"))}}
        \cup {("input_file" :> PyStr("in.csv"))
                  @@ ("output_file" :> PyStr("out.xlsx"))}

InitConfig ==
    /\ module = "config"
    /\ expression = <<>>
    /\ formula = None
    /\ abundance_table = None
    /\ last = [call |-> "none", outcome |-> Ok(None)]
    /\ user_file = None
    /\ reader = None
    /\ received = <<>>
    /\ glycan = None
    /\ mp_table = None
    /\ config = None
    /\ data_glycans = None

\* Config(user_config): the object exists when the constructor returned
Config_construct(user_config) ==
    /\ module = "config"
    /\ last.call = "none"
    /\ \E call \in {Config(user_config)} :
           /\ config' = IF call.ok THEN call.value ELSE None
           /\ last' = [call |-> "Config", new |-> user_config,
                       outcome |-> IF call.ok THEN Ok(None) ELSE call]
    /\ UNCHANGED <<object_vars, file_vars, glycan_vars>>

\* config.update(new)
update(new) ==
    /\ module = "config"
    /\ config # None
    /\ \E call \in {Update(config, new)} :
           /\ config' = call.self
           /\ last' = [call |-> "update", new |-> new,
                       outcome |-> call.outcome]
    /\ UNCHANGED <<object_vars, file_vars, glycan_vars>>

\* config.set(key, value)
set(key, value) ==
    /\ module = "config"
    /\ config # None
    /\ \E call \in {Set(config, key, value)} :
           /\ config' = call.self
           /\ last' = [call |-> "set", new |-> (key :> value),
                       outcome |-> call.outcome]
    /\ UNCHANGED <<object_vars, file_vars, glycan_vars>>

NextConfig ==
    \/ \E user_config \in UserConfigs : Config_construct(user_config)
    \/ \E new \in Mappings : update(new)
    \/ \E kv \in KeyValues : set(kv[1], kv[2])

SpecConfig == InitConfig /\ [][NextConfig]_vars

\* Whether a stored configuration satisfies every registered validator.
SatisfiesValidators(stored) ==
    Bind(validators(stored), LAMBDA checked :
        \A i \in DOMAIN checked : checked[i].passes)

\* The configuration a call asks for: the stored one with the values of the
\* call in place of its own.
AskedFor(stored, new) ==
    [key \in DOMAIN stored |->
        IF key \in DOMAIN new THEN new[key] ELSE stored[key]]

\* C30: Config.update and Config.set are all-or-nothing: a call that
\* succeeds stores the configuration asked for, a call that fails on an
\* unknown key or on a validator leaves the stored configuration as it was,
\* and the stored configuration satisfies every registered validator: the
\* database and the structure file are never both set, and in the
\* composition mode neither is.
C30_UpdateIsAllOrNothing ==
    [][/\ (config # None /\ last'.call \in {"update", "set"}) =>
              IF last'.outcome.ok
              THEN config' = AskedFor(config, last'.new)
              ELSE /\ config' = config
                   /\ last'.outcome.error \in {"KeyError", "ConfigError"}
       /\ config' # None =>
              /\ SatisfiesValidators(config')
              /\ ~(config'.database # None /\ config'.structure_file # None)
              /\ config'.mode = PyStr("composition") =>
                     (config'.database = None /\ config'.structure_file = None)
      ]_vars

\* An update that asks for a database next to a stored structure file has
\* been refused.
C30_Witness ==
    /\ last.call = "update"
    /\ last.outcome = Raise("ConfigError")
    /\ config.structure_file = PyStr("s.csv")
    /\ "database" \in DOMAIN last.new
    /\ last.new["database"] = PyStr("serum")
    /\ "sia_linkage" \in DOMAIN last.new
    /\ last.new["sia_linkage"] = PyBool(TRUE)
    /\ config.sia_linkage = PyBool(FALSE)
====
